---- MODULE Spec2Model ----
(***************************************************************************)
(* A model of @substrate-system/stream.                                    *)
(*                                                                         *)
(* Part I  (SpecSink): the file sink of toFile / toFileSink, an underlying *)
(*   sink object handed to `new WritableStream(...)`, driven by the        *)
(*   writable stream's queue (one sink call in flight at a time), by a     *)
(*   writer (write / close / abort in any interleaving) or by pipeTo.      *)
(* Part II (SpecPipe): a source piped through transform stages             *)
(*   (Stream.pipe -> pipeThrough, through/transform -> TransformStream)    *)
(*   and drained by a single reader (collect / run).                       *)
(***************************************************************************)
EXTENDS Integers, Sequences, FiniteSets, TLC

(* ------------------------------ bounds -------------------------------- *)
\* most chunks handed to one sink
MaxChunks == 2
\* most bytes in one chunk
MaxChunkLen == 3
\* most bytes the target file holds before the sink is created
MaxPre == 8
\* most calls of writer.close() and of writer.abort() on one sink
MaxCalls == 2

\* most items the source of a pipeline yields
MaxItems == 3
\* most transform stages piped after the source
MaxStages == 2

\* the byte a pre-existing target is filled with (test/node.ts:11)
StaleByte == 9

VARIABLES
    \* ---- the target behind the FileHandleLike
    file,          \* the target's bytes
    byteWrites,    \* per file position, how many fh.write calls stored a byte there
    nWrites,       \* fh.write calls so far
    truncates,     \* fh.truncate calls so far
    truncatedTo,   \* argument of the last fh.truncate call (-1: none)
    closes,        \* fh.close calls so far
    stalled,       \* some fh.write call reported bytesWritten <= 0
    \* ---- the closure of toFile
    position,      \* `let position = 0`
    offset,        \* `let offset = 0` of the write in flight
    closePc,       \* where close() is: "idle", "truncate" (awaiting fh.truncate),
                   \* "close" (awaiting fh.close), "done", "failed"
    abortRan,      \* abort() has been invoked
    writesAtAbort, \* nWrites when abort() was invoked
    \* ---- the WritableStream around it
    wsState,       \* [[state]]: "writable", "erroring", "errored", "closed"
    wsQueue,       \* [[queue]]: chunk numbers; the head is the one in flight
    closeQueued,   \* the close sentinel is at the end of the queue
    inFlight,      \* "none", "write", "close", "abort"
    pendingAbort,  \* [[pendingAbortRequest]] is set
    storedError,   \* [[storedError]]
    \* ---- the caller
    chunkLens,     \* the byte lengths of the chunks the caller will write
    preLen,        \* the length of the target before the sink is created
    mode,          \* "writer": getWriter() and free calls; "pipeTo": readable.pipeTo(sink)
    nextChunk,     \* number of the next chunk to write
    writeRes,      \* per chunk, the outcome of writer.write(chunk)
    closeRes,      \* outcome of the first writer.close()
    abortRes,      \* outcome of writer.abort()
    closeCalls,
    abortCalls,
    calledAfterError, \* close() or abort() was called after a write had failed
    pipeRes,       \* outcome of pipeTo: "none", "pending", "resolved", or the error
    \* ---- a pipeline: source -> stage 1 -> ... -> stage nStages -> reader
    srcKind,       \* "pull": a ReadableStream with pull(); "from": from(iterable)
    nItems,        \* the source yields the items 1..nItems
    nStages,
    kinds,         \* per stage: "through" (through(x => x * 2)), "dup" (one-to-many),
                   \* "throughZero", "map", "filter", "forEach", "take", "skip", "scan"
    next,          \* the next item the source will enqueue
    rq,            \* per readable end 0..nStages (0: the source), its queue
    rclosed,       \* per readable end, controller.close() was called
    readReq,       \* per readable end, its reader has a read() pending
    wq,            \* per stage, the queue of its writable end (head: in flight)
    winflight,     \* per stage, the write of the head of wq is in flight
    bp,            \* per stage, the TransformStream's [[backpressure]]
    exec,          \* per stage, the items inside a call of the transform function
    seen,          \* per stage, the items passed to its function so far
    received,      \* what the reader at the tail has read
    done,          \* the reader at the tail has seen end-of-stream
    \* ---- what goes wrong in the run, and who consumes the tail
    faultKind,     \* "none", or what throws: "fn" (a stage's function), "iter" (the
                   \* iterable), "flush" (a flush hook), "sink" (the sink's write),
                   \* "pred" (the predicate / reducer given to the terminal operator)
    faultStage,    \* the stage whose function or flush hook throws
    faultAt,       \* the call (or item) number at which it throws
    term,          \* the terminal operator: "collect" (collect, run, toArray), "reduce",
                   \* "find" / "findGt", "some", "every", "pipeTo",
                   \* "Enhanced.collect" (EnhancedStream.collect())
    matchAt,       \* find: the number of the first item its predicate accepts (0: none)
    flushKind,     \* per stage: "none", "hook" (through(fn, flushFn)), "emit" (a
                   \* transformer whose flush enqueues lastValue * 100)
    arg,           \* per stage: the n of take(n) / skip(n)
    initial,       \* the initial value given to scan / reduce
    threshold,     \* the k of find(x => x > k)
    values,        \* EnhancedStream.collect(): per item, the chunk the source
                   \* yields there: [kind |-> "Uint8Array" / "Float32Array" /
                   \* "string" / "number", data |-> its elements, the codes of
                   \* its characters, or the number]; <<>> elsewhere
    \* ---- errors
    rerr,          \* per readable end, its [[storedError]] ("none": not errored)
    werr,          \* per stage, the [[storedError]] of its writable end
    threw,         \* the fault has happened
    \* ---- the terminal operator and a second one on the same handle
    result,        \* the operator's promise: "pending", "resolved", "rejected"
    resultErr,     \* what it rejected with
    lock,          \* who holds the reader lock of the tail: "none", "first", "second"
    second,        \* the second operator: "none", "failed", "attached", "finished"
    stolen,        \* what the second operator has read
    \* ---- flush hooks
    flushRuns,     \* per stage, how many times flush was called
    flushing,      \* per stage, flush is running
    \* ---- the sink given to pipeTo
    sinkQ,         \* the chunk being written to it
    sinkGot,       \* the chunks its write() has completed, in order
    sinkState,     \* "writable", "closing", "closed", "errored"
    \* ---- take / skip
    count,         \* per stage, the closure's `let count = 0`
    \* ---- scan / forEach / reduce
    acc,           \* per stage, the closure's `let acc = initial` of scan
    effects,       \* the items the function given to forEach has finished with
    reduceAcc,     \* the `let acc = initial` of reduce
    \* ---- composing handles with pipe
    handles,       \* the handles not yet piped, left to right
    links,         \* the pipeThrough connections made: <<from, to>>
    buildErr       \* a pipe call threw

sinkVars ==
    <<file, byteWrites, nWrites, truncates, truncatedTo, closes, stalled,
      position, offset, closePc, abortRan, writesAtAbort,
      wsState, wsQueue, closeQueued, inFlight, pendingAbort, storedError,
      chunkLens, preLen, mode, calledAfterError, nextChunk, writeRes, closeRes, abortRes,
      closeCalls, abortCalls, pipeRes>>

cfgVars ==
    <<faultKind, faultStage, faultAt, term, matchAt, flushKind, arg, initial,
      threshold, values>>

errVars ==
    <<rerr, werr, threw>>

termVars ==
    <<result, resultErr, lock, second, stolen>>

flushVars ==
    <<flushRuns, flushing>>

destVars ==
    <<sinkQ, sinkGot, sinkState>>

buildVars ==
    <<handles, links, buildErr>>

pipeVars ==
    <<srcKind, nItems, nStages, kinds, next, rq, rclosed, readReq, wq,
      winflight, bp, exec, seen, received, done,
      cfgVars, errVars, termVars, flushVars, destVars, count, acc, effects,
      reduceAcc, buildVars>>

vars ==
    <<sinkVars, pipeVars>>

(* ------------------------------ helpers ------------------------------- *)
Max(a, b) ==
    IF a >= b THEN a ELSE b

RECURSIVE SumTo(_, _)
SumTo(lens, k) ==
    IF k = 0 THEN 0 ELSE lens[k] + SumTo(lens, k - 1)

\* the bytes of chunk k: distinct over chunks and offsets, never StaleByte
Chunk(k) ==
    [j \in 1..chunkLens[k] |-> 10 * k + j]

RECURSIVE Concat(_)
Concat(k) ==
    IF k = 0 THEN <<>> ELSE Concat(k - 1) \o Chunk(k)

\* fh.write(buffer, offset, length, position) storing bytesWritten bytes
FhWrite(f, buffer, off, bytesWritten, pos) ==
    [i \in 1..Max(Len(f), pos + bytesWritten) |->
        IF i > pos /\ i <= pos + bytesWritten
        THEN buffer[off + (i - pos)]
        ELSE f[i]]

\* fh.truncate(len)
FhTruncate(f, len) ==
    [i \in 1..len |-> IF i <= Len(f) THEN f[i] ELSE 0]

CountWrite(bw, pos, n) ==
    [i \in 1..Max(Len(bw), pos + n) |->
        (IF i <= Len(bw) THEN bw[i] ELSE 0)
        + (IF i > pos /\ i <= pos + n THEN 1 ELSE 0)]

(* ------------------------------- Init --------------------------------- *)
\* nothing is composed with pipe
NoBuild ==
    /\ handles = <<>>
    /\ links = {}
    /\ buildErr = FALSE

\* nothing has gone wrong yet, no flush has run, nothing was written to a sink
Fresh ==
    /\ rerr = [s \in 0..nStages |-> "none"]
    /\ werr = [s \in 1..nStages |-> "none"]
    /\ threw = FALSE
    /\ result = "pending"
    /\ resultErr = "none"
    /\ second = "none"
    /\ stolen = <<>>
    /\ flushRuns = [s \in 1..nStages |-> 0]
    /\ flushing = [s \in 1..nStages |-> FALSE]
    /\ sinkQ = <<>>
    /\ sinkGot = <<>>
    /\ sinkState = "writable"
    /\ count = [s \in 1..nStages |-> 0]
    /\ acc = [s \in 1..nStages |-> initial]
    /\ effects = <<>>
    /\ reduceAcc = initial

\* nothing throws, no stage has a flush hook, the tail is read by collect()
Plain ==
    /\ faultKind = "none"
    /\ faultStage = 0
    /\ faultAt = 0
    /\ term = "collect"
    /\ matchAt = 0
    /\ flushKind = [s \in 1..nStages |-> "none"]
    /\ arg = [s \in 1..nStages |-> 0]
    /\ initial = 0
    /\ threshold = 0
    /\ values = <<>>

\* no pipeline is built
NoPipeline ==
    /\ srcKind = "pull"
    /\ nItems = 0
    /\ nStages = 0
    /\ kinds = <<>>
    /\ next = 1
    /\ rq = [s \in {0} |-> <<>>]
    /\ rclosed = [s \in {0} |-> FALSE]
    /\ readReq = [s \in {0} |-> FALSE]
    /\ wq = <<>>
    /\ winflight = <<>>
    /\ bp = <<>>
    /\ exec = <<>>
    /\ seen = <<>>
    /\ received = <<>>
    /\ done = FALSE
    /\ Plain
    /\ Fresh
    /\ lock = "none"
    /\ NoBuild

InitSink ==
    /\ \E n \in 0..MaxChunks : chunkLens \in [1..n -> 0..MaxChunkLen]
    /\ preLen \in 0..MaxPre
    /\ file = [i \in 1..preLen |-> StaleByte]
    /\ mode \in {"writer", "pipeTo"}
    /\ byteWrites = <<>>
    /\ nWrites = 0
    /\ truncates = 0
    /\ truncatedTo = -1
    /\ closes = 0
    /\ stalled = FALSE
    /\ position = 0
    /\ offset = 0
    /\ closePc = "idle"
    /\ abortRan = FALSE
    /\ writesAtAbort = 0
    /\ wsState = "writable"
    /\ wsQueue = <<>>
    /\ closeQueued = FALSE
    /\ inFlight = "none"
    /\ pendingAbort = FALSE
    /\ storedError = "none"
    /\ nextChunk = 1
    /\ writeRes = [k \in 1..Len(chunkLens) |-> "none"]
    /\ closeRes = "none"
    /\ abortRes = "none"
    /\ closeCalls = 0
    /\ abortCalls = 0
    /\ calledAfterError = FALSE
    /\ pipeRes = IF mode = "pipeTo" THEN "pending" ELSE "none"
    /\ NoPipeline

(* --------------------- toFile: the underlying sink -------------------- *)
\* `new WritableStream(sink)` without a queuing strategy: highWaterMark 1
HighWaterMark == 1

\* `if (bytesWritten <= 0) throw new Error('Expected file handle write to advance.')`
NoProgress_negative_only(bytesWritten) ==
    bytesWritten < 0

NoProgress(bytesWritten) ==
    bytesWritten <= 0

\* `offset += bytesWritten`
AdvanceOffset_stuck(off, bytesWritten) ==
    off

AdvanceOffset(off, bytesWritten) ==
    off + bytesWritten

\* `position += bytesWritten`
AdvancePosition_stuck(pos, bytesWritten) ==
    pos

AdvancePosition(pos, bytesWritten) ==
    pos + bytesWritten

\* the argument of `fh.truncate(position)`
TruncateLength_default(pos) ==
    0

TruncateLength(pos) ==
    pos

\* close(): `await fh.close()`, reached once `await fh.truncate(position)` resolved
toFile_close_fhclose_twice ==
    closes' = closes + 2

toFile_close_fhclose ==
    closes' = closes + 1

\* abort(): `await fh.close()` and nothing else
toFile_abort_truncating ==
    /\ closes' = closes + 1
    /\ truncates' = truncates + 1
    /\ truncatedTo' = position

toFile_abort ==
    /\ closes' = closes + 1
    /\ UNCHANGED <<truncates, truncatedTo>>

\* WritableStreamCloseQueuedOrInFlight
CloseQueuedOrInFlight ==
    closeQueued \/ inFlight = "close"

\* WritableStreamFinishErroring, run as soon as the stream is erroring with no
\* sink call in flight: the stream is errored, the queued writes are rejected
\* and, with an abort request pending (pa), the sink's abort() is called.
\* wr, cr, nw: writeRes, closeRes and nWrites as the calling step leaves them.
FinishErroring(wr, cr, nw, pa) ==
    /\ wsState' = "errored"
    /\ wsQueue' = <<>>
    /\ writeRes' = [k \in DOMAIN wr |->
                        IF wr[k] = "pending" THEN "rejected" ELSE wr[k]]
    /\ pendingAbort' = FALSE
    /\ IF pa
       THEN /\ inFlight' = "abort"
            /\ abortRan' = TRUE
            /\ writesAtAbort' = nw
            /\ toFile_abort
            /\ closeRes' = cr
            /\ UNCHANGED closeQueued
       ELSE /\ inFlight' = "none"
            /\ closeRes' = IF closeQueued THEN "rejected" ELSE cr
            /\ closeQueued' = FALSE
            /\ UNCHANGED <<closes, truncates, truncatedTo, abortRan, writesAtAbort>>

(* ---------------- the caller: writer.write / close / abort ------------ *)
\* writer.write(chunk) (in pipeTo: only when the writer's desiredSize > 0)
ClientWrite ==
    /\ nextChunk <= Len(chunkLens)
    /\ mode = "pipeTo" =>
        /\ wsState = "writable"
        /\ ~CloseQueuedOrInFlight
        /\ pipeRes = "pending"
        /\ Len(wsQueue) < HighWaterMark
    /\ nextChunk' = nextChunk + 1
    /\ IF wsState \in {"errored", "erroring", "closed"} \/ CloseQueuedOrInFlight
       THEN /\ writeRes' = [writeRes EXCEPT ![nextChunk] = "rejected"]
            /\ UNCHANGED wsQueue
       ELSE /\ writeRes' = [writeRes EXCEPT ![nextChunk] = "pending"]
            /\ wsQueue' = Append(wsQueue, nextChunk)
    /\ UNCHANGED <<file, byteWrites, nWrites, truncates, truncatedTo, closes,
                   stalled, position, offset, closePc, abortRan, writesAtAbort,
                   wsState, closeQueued, inFlight, pendingAbort, storedError,
                   chunkLens, preLen, mode, calledAfterError, closeRes, abortRes, closeCalls,
                   abortCalls, pipeRes>>
    /\ UNCHANGED pipeVars

\* writer.close() (in pipeTo: once the source is drained and every write settled)
ClientClose ==
    /\ closeCalls < MaxCalls
    /\ mode = "pipeTo" =>
        /\ wsState = "writable"
        /\ ~CloseQueuedOrInFlight
        /\ pipeRes = "pending"
        /\ nextChunk > Len(chunkLens)
        /\ wsQueue = <<>>
        /\ inFlight = "none"
    /\ closeCalls' = closeCalls + 1
    /\ calledAfterError' = (calledAfterError \/ (stalled /\ wsState = "errored"))
    /\ IF CloseQueuedOrInFlight \/ wsState \in {"closed", "errored"}
       THEN /\ closeRes' = IF closeRes = "none" THEN "rejected" ELSE closeRes
            /\ UNCHANGED closeQueued
       ELSE /\ closeRes' = "pending"
            /\ closeQueued' = TRUE
    /\ UNCHANGED <<file, byteWrites, nWrites, truncates, truncatedTo, closes,
                   stalled, position, offset, closePc, abortRan, writesAtAbort,
                   wsState, wsQueue, inFlight, pendingAbort, storedError,
                   chunkLens, preLen, mode, nextChunk, writeRes, abortRes,
                   abortCalls, pipeRes>>
    /\ UNCHANGED pipeVars

\* writer.abort(reason) (in pipeTo: the source errored and every write has settled)
ClientAbort ==
    /\ abortCalls < MaxCalls
    /\ mode = "pipeTo" =>
        /\ wsState = "writable"
        /\ ~CloseQueuedOrInFlight
        /\ pipeRes = "pending"
        /\ wsQueue = <<>>
        /\ inFlight = "none"
    /\ abortCalls' = abortCalls + 1
    /\ calledAfterError' = (calledAfterError \/ (stalled /\ wsState = "errored"))
    /\ IF wsState \in {"closed", "errored"}
       THEN /\ abortRes' = IF abortRes = "none" THEN "fulfilled" ELSE abortRes
            /\ UNCHANGED <<wsState, wsQueue, writeRes, pendingAbort, inFlight,
                           abortRan, writesAtAbort, closes, truncates,
                           truncatedTo, closeRes, closeQueued, storedError>>
       ELSE IF pendingAbort
       THEN UNCHANGED <<wsState, wsQueue, writeRes, pendingAbort, inFlight,
                        abortRan, writesAtAbort, closes, truncates,
                        truncatedTo, closeRes, closeQueued, storedError,
                        abortRes>>
       ELSE /\ abortRes' = "pending"
            /\ storedError' = IF mode = "pipeTo" THEN "SourceError" ELSE "Aborted"
            /\ IF inFlight = "none"
               THEN FinishErroring(writeRes, closeRes, nWrites, TRUE)
               ELSE /\ wsState' = "erroring"
                    /\ pendingAbort' = TRUE
                    /\ UNCHANGED <<wsQueue, writeRes, inFlight, abortRan,
                                   writesAtAbort, closes, truncates,
                                   truncatedTo, closeRes, closeQueued>>
    /\ UNCHANGED <<file, byteWrites, nWrites, stalled, position, offset,
                   closePc, chunkLens, preLen, mode, nextChunk, closeCalls,
                   pipeRes>>
    /\ UNCHANGED pipeVars

\* pipeTo settles: resolved once the sink closed, rejected with the sink's error
PipeToSettle ==
    /\ pipeRes = "pending"
    /\ inFlight = "none"
    /\ wsState \in {"closed", "errored"}
    /\ pipeRes' = IF wsState = "closed" THEN "resolved" ELSE storedError
    /\ UNCHANGED <<file, byteWrites, nWrites, truncates, truncatedTo, closes,
                   stalled, position, offset, closePc, abortRan, writesAtAbort,
                   wsState, wsQueue, closeQueued, inFlight, pendingAbort,
                   storedError, chunkLens, preLen, mode, calledAfterError, nextChunk, writeRes,
                   closeRes, abortRes, closeCalls, abortCalls>>
    /\ UNCHANGED pipeVars

(* ------------------------ the sink's handlers ------------------------- *)
\* the stream takes the head of its queue and calls write(chunk): `let offset = 0`
toFile_write_begin ==
    /\ wsState = "writable"
    /\ inFlight = "none"
    /\ wsQueue # <<>>
    /\ inFlight' = "write"
    /\ offset' = 0
    /\ UNCHANGED <<file, byteWrites, nWrites, truncates, truncatedTo, closes,
                   stalled, position, closePc, abortRan, writesAtAbort,
                   wsState, wsQueue, closeQueued, pendingAbort, storedError,
                   chunkLens, preLen, mode, calledAfterError, nextChunk, writeRes, closeRes,
                   abortRes, closeCalls, abortCalls, pipeRes>>
    /\ UNCHANGED pipeVars

\* one turn of `while (offset < chunk.byteLength)`: fh.write reports bytesWritten
\* and has stored that many bytes of chunk[offset..] at position
toFile_write_loop(bytesWritten) ==
    /\ inFlight = "write"
    /\ offset < chunkLens[Head(wsQueue)]
    /\ nWrites < MaxChunks * MaxChunkLen + 1
    /\ nWrites' = nWrites + 1
    /\ LET stored == Max(bytesWritten, 0) IN
        /\ file' = FhWrite(file, Chunk(Head(wsQueue)), offset, stored, position)
        /\ byteWrites' = CountWrite(byteWrites, position, stored)
    /\ stalled' = (stalled \/ bytesWritten <= 0)
    /\ IF NoProgress(bytesWritten)
       THEN \* the throw rejects write(chunk): the stream errors
            /\ storedError' = IF wsState = "writable" THEN "NoProgress"
                              ELSE storedError
            /\ FinishErroring([writeRes EXCEPT ![Head(wsQueue)] = "NoProgress"],
                              closeRes, nWrites + 1, pendingAbort)
            /\ UNCHANGED <<offset, position>>
       ELSE /\ offset' = AdvanceOffset(offset, bytesWritten)
            /\ position' = AdvancePosition(position, bytesWritten)
            /\ UNCHANGED <<wsState, wsQueue, writeRes, pendingAbort, inFlight,
                           abortRan, writesAtAbort, closes, truncates,
                           truncatedTo, closeRes, closeQueued, storedError>>
    /\ UNCHANGED <<closePc, chunkLens, preLen, mode, calledAfterError, nextChunk, abortRes,
                   closeCalls, abortCalls, pipeRes>>
    /\ UNCHANGED pipeVars

\* the loop ends and write(chunk) resolves: the stream drops the chunk from its
\* queue, or finishes erroring when an abort was requested meanwhile
toFile_write_return ==
    /\ inFlight = "write"
    /\ offset >= chunkLens[Head(wsQueue)]
    /\ IF wsState = "erroring"
       THEN FinishErroring([writeRes EXCEPT ![Head(wsQueue)] = "ok"],
                           closeRes, nWrites, pendingAbort)
       ELSE /\ inFlight' = "none"
            /\ writeRes' = [writeRes EXCEPT ![Head(wsQueue)] = "ok"]
            /\ wsQueue' = Tail(wsQueue)
            /\ UNCHANGED <<wsState, pendingAbort, abortRan, writesAtAbort,
                           closes, truncates, truncatedTo, closeRes,
                           closeQueued>>
    /\ UNCHANGED <<file, byteWrites, nWrites, stalled, position, offset,
                   closePc, storedError, chunkLens, preLen, mode, calledAfterError, nextChunk,
                   abortRes, closeCalls, abortCalls, pipeRes>>
    /\ UNCHANGED pipeVars

\* the queue holds only the close sentinel: close() is called, `fh.truncate(position)`
toFile_close_begin ==
    /\ wsState = "writable"
    /\ inFlight = "none"
    /\ wsQueue = <<>>
    /\ closeQueued
    /\ inFlight' = "close"
    /\ closeQueued' = FALSE
    /\ closePc' = "truncate"
    /\ truncates' = truncates + 1
    /\ truncatedTo' = TruncateLength(position)
    /\ UNCHANGED <<file, byteWrites, nWrites, closes, stalled, position, offset,
                   abortRan, writesAtAbort, wsState, wsQueue, pendingAbort,
                   storedError, chunkLens, preLen, mode, calledAfterError, nextChunk, writeRes,
                   closeRes, abortRes, closeCalls, abortCalls, pipeRes>>
    /\ UNCHANGED pipeVars

\* fh.truncate settles: resolved, close() goes on to `fh.close()`; rejected,
\* close() rejects and the stream errors (a pending abort request is rejected)
toFile_close_truncated(ok) ==
    /\ inFlight = "close"
    /\ closePc = "truncate"
    /\ IF ok
       THEN /\ file' = FhTruncate(file, truncatedTo)
            /\ closePc' = "close"
            /\ toFile_close_fhclose
            /\ UNCHANGED <<wsState, wsQueue, writeRes, pendingAbort, inFlight,
                           abortRan, writesAtAbort, truncates, truncatedTo,
                           closeRes, closeQueued, storedError, abortRes>>
       ELSE /\ closePc' = "failed"
            /\ abortRes' = IF pendingAbort THEN "rejected" ELSE abortRes
            /\ storedError' = IF wsState = "writable" THEN "TruncateFailed"
                              ELSE storedError
            /\ FinishErroring(writeRes, "rejected", nWrites, FALSE)
            /\ UNCHANGED file
    /\ UNCHANGED <<byteWrites, nWrites, stalled, position, offset, chunkLens,
                   preLen, mode, calledAfterError, nextChunk, closeCalls, abortCalls, pipeRes>>
    /\ UNCHANGED pipeVars

\* fh.close() resolved, close() resolves: the stream is closed (an abort requested
\* meanwhile is resolved without calling abort())
toFile_close_return ==
    /\ inFlight = "close"
    /\ closePc = "close"
    /\ closePc' = "done"
    /\ inFlight' = "none"
    /\ closeRes' = "fulfilled"
    /\ abortRes' = IF pendingAbort THEN "fulfilled" ELSE abortRes
    /\ pendingAbort' = FALSE
    /\ storedError' = "none"
    /\ wsState' = "closed"
    /\ UNCHANGED <<file, byteWrites, nWrites, truncates, truncatedTo, closes,
                   stalled, position, offset, abortRan, writesAtAbort, wsQueue,
                   closeQueued, chunkLens, preLen, mode, calledAfterError, nextChunk, writeRes,
                   closeCalls, abortCalls, pipeRes>>
    /\ UNCHANGED pipeVars

\* abort()'s fh.close() resolved: the abort request resolves, a queued close rejects
toFile_abort_return ==
    /\ inFlight = "abort"
    /\ inFlight' = "none"
    /\ abortRes' = "fulfilled"
    /\ closeRes' = IF closeQueued THEN "rejected" ELSE closeRes
    /\ closeQueued' = FALSE
    /\ UNCHANGED <<file, byteWrites, nWrites, truncates, truncatedTo, closes,
                   stalled, position, offset, closePc, abortRan, writesAtAbort,
                   wsState, wsQueue, pendingAbort, storedError, chunkLens,
                   preLen, mode, calledAfterError, nextChunk, writeRes, closeCalls, abortCalls,
                   pipeRes>>
    /\ UNCHANGED pipeVars

NextSink ==
    \/ ClientWrite
    \/ ClientClose
    \/ ClientAbort
    \/ PipeToSettle
    \/ toFile_write_begin
    \/ \E bytesWritten \in -1..MaxChunkLen :
        /\ inFlight = "write"
        /\ bytesWritten <= chunkLens[Head(wsQueue)] - offset
        /\ toFile_write_loop(bytesWritten)
    \/ toFile_write_return
    \/ toFile_close_begin
    \/ \E ok \in BOOLEAN : toFile_close_truncated(ok)
    \/ toFile_close_return
    \/ toFile_abort_return

SpecSink ==
    InitSink /\ [][NextSink]_vars


(* ------------------------- the sink's claims -------------------------- *)
\* the writes the sink completed: chunks 1..NumOk
NumOk ==
    Cardinality({k \in DOMAIN writeRes : writeRes[k] = "ok"})

\* C1: once the sink has closed, the target holds exactly the bytes of the
\* chunks written, chunk after chunk from position 0, each byte stored by
\* exactly one fh.write call, and its length is the sum of the chunk lengths.
C1_PartialWritesLandOnceInOrder ==
    wsState = "closed" =>
        /\ \A k \in DOMAIN writeRes : writeRes[k] = "ok" <=> k <= NumOk
        /\ file = Concat(NumOk)
        /\ Len(file) = SumTo(chunkLens, NumOk)
        /\ byteWrites = [i \in 1..Len(file) |-> 1]

\* two chunks, more fh.write calls than chunks (a partial write), then closed
C1_Witness ==
    /\ wsState = "closed"
    /\ NumOk = 2
    /\ nWrites > 3
    /\ Len(file) > 3

\* C2: a fh.write call reporting bytesWritten <= 0 while bytes remain makes
\* write(chunk) reject with the no-progress error (no further retry, no
\* success), and no write is rejected with it unless such a call happened.
C2_NoProgressFailsPartialRetries ==
    /\ stalled =>
        /\ \E k \in DOMAIN writeRes : writeRes[k] = "NoProgress"
        /\ inFlight # "write"
        /\ wsState \in {"erroring", "errored"}
    /\ ~stalled =>
        /\ \A k \in DOMAIN writeRes : writeRes[k] # "NoProgress"
        /\ storedError # "NoProgress"

\* a partial write of the chunk in flight, then a call that reports no progress
C2_Witness ==
    /\ stalled
    /\ offset > 0
    /\ nWrites >= 2
    /\ \E k \in DOMAIN writeRes : writeRes[k] = "NoProgress" /\ offset < chunkLens[k]

\* C3: close() calls fh.truncate once, with the final cursor position, and
\* fh.close only after that resolved; the target then holds exactly the bytes
\* written, whatever it held before.
C3_CloseTruncatesThenCloses ==
    /\ truncates <= 1
    /\ closePc = "truncate" => closes = 0 /\ truncatedTo = position
    /\ closePc \in {"close", "done"} =>
        /\ truncates = 1
        /\ truncatedTo = position
        /\ position = SumTo(chunkLens, NumOk)
        /\ closes = 1
        /\ file = Concat(NumOk)

\* an 8-byte target, chunks of 3 and 2 bytes, closed: 5 bytes are left
C3_Witness ==
    /\ closePc = "done"
    /\ preLen = 8
    /\ chunkLens = <<3, 2>>
    /\ file = <<11, 12, 13, 21, 22>>

\* C4: once abort() has run, the handle is closed, fh.truncate was never
\* called and no fh.write call follows.
C4_AbortClosesWithoutTruncate ==
    abortRan =>
        /\ closes = 1
        /\ truncates = 0
        /\ closePc = "idle"
        /\ nWrites = writesAtAbort
        /\ inFlight \notin {"write", "close"}

\* abort() ran after part of the data was written over a longer target
C4_Witness ==
    /\ abortRan
    /\ inFlight = "none"
    /\ position > 0
    /\ Len(file) > position
    /\ nextChunk <= Len(chunkLens)

\* C5 (as claimed): after a write failed with the no-progress error, once a
\* close or abort has been issued (or pipeTo has settled) the handle has been
\* closed exactly once, and pipeTo rejected with that error.
C5_HandleClosedAfterWriteError ==
    ( /\ stalled
      /\ wsState = "errored"
      /\ inFlight = "none"
      /\ calledAfterError \/ pipeRes \notin {"none", "pending"} )
    => /\ closes = 1
       /\ pipeRes \in {"none", "pending", "NoProgress"}

\* C6: whatever the interleaving of write, close and abort, fh.close is
\* called at most once and fh.truncate at most once, and abort() and close()
\* never both run on one sink.
C6_HandleClosedAtMostOnce ==
    /\ closes <= 1
    /\ truncates <= 1
    /\ abortRan => truncates = 0 /\ closePc = "idle"

\* abort requested while close() awaits fh.close()
C6_Witness ==
    /\ pendingAbort
    /\ closePc = "close"
    /\ closes = 1
    /\ closeCalls = 2

(* ======================= Part II: the pipeline ======================== *)
\* no sink is built
NoSink ==
    /\ chunkLens = <<>>
    /\ preLen = 0
    /\ file = <<>>
    /\ mode = "writer"
    /\ byteWrites = <<>>
    /\ nWrites = 0
    /\ truncates = 0
    /\ truncatedTo = -1
    /\ closes = 0
    /\ stalled = FALSE
    /\ position = 0
    /\ offset = 0
    /\ closePc = "idle"
    /\ abortRan = FALSE
    /\ writesAtAbort = 0
    /\ wsState = "writable"
    /\ wsQueue = <<>>
    /\ closeQueued = FALSE
    /\ inFlight = "none"
    /\ pendingAbort = FALSE
    /\ storedError = "none"
    /\ nextChunk = 1
    /\ writeRes = <<>>
    /\ closeRes = "none"
    /\ abortRes = "none"
    /\ closeCalls = 0
    /\ abortCalls = 0
    /\ calledAfterError = FALSE
    /\ pipeRes = "none"

\* `new ReadableStream({ pull })` without a strategy: highWaterMark 1
SourceHWM == 1

\* `new TransformStream(transformer)` without strategies: the writable end has
\* highWaterMark 1, the readable end highWaterMark 0
WritableHWM == 1

ReadableHWM == 0

\* what no pipeline action changes
staticVars ==
    <<srcKind, nItems, nStages, kinds, cfgVars, buildVars, sinkVars>>

Last(xs) ==
    xs[Len(xs)]

\* the function given to through(): `x => x * 2`
transformFn(x) ==
    x * 2

\* the predicate given to filter(): `x => x % 2 === 0`
predicate(x) ==
    x % 2 = 0

\* through(): `controller.enqueue(result)`, one output per input
through_outputs_twice(x) ==
    <<transformFn(x), transformFn(x)>>

through_outputs(x) ==
    <<transformFn(x)>>

\* transform() with a one-to-many transformer: enqueue(chunk); enqueue(chunk)
duplicator_outputs(x) ==
    <<x, x>>

Outputs(kind, x) ==
    IF kind = "through" THEN through_outputs(x) ELSE duplicator_outputs(x)

\* skip(n): `if (count >= n) controller.enqueue(chunk)`
skip_outputs_off_by_one(c, n, x) ==
    IF c > n THEN <<x>> ELSE <<>>

skip_outputs(c, n, x) ==
    IF c >= n THEN <<x>> ELSE <<>>

\* take(n): `if (count < n) { controller.enqueue(chunk); count++ }`
take_outputs_one_more(c, n, x) ==
    IF c <= n THEN <<x>> ELSE <<>>

take_outputs(c, n, x) ==
    IF c < n THEN <<x>> ELSE <<>>

\* filter(p): `if (await predicate(chunk)) controller.enqueue(chunk)`
filter_outputs_inverted(x) ==
    IF predicate(x) THEN <<>> ELSE <<x>>

filter_outputs(x) ==
    IF predicate(x) THEN <<x>> ELSE <<>>

\* a function given to through() whose result is falsy: `x => x * 0`
zeroFn(x) ==
    x * 0

\* through(): `controller.enqueue(result)`, whatever the result is
enqueue_result_if_truthy(res) ==
    IF res = 0 THEN <<>> ELSE <<res>>

enqueue_result(res) ==
    <<res>>

\* map(fn): `controller.enqueue(await fn(chunk))`
map_outputs_unmapped(x) ==
    <<x>>

map_outputs(x) ==
    <<transformFn(x)>>

\* the reducer given to scan() / reduce(): `(acc, x) => acc + x`
reducer(a, x) ==
    a + x

\* scan(fn, initial): `acc = await fn(acc, chunk); controller.enqueue(acc)`
scan_outputs_before_update(a, x) ==
    <<a>>

scan_outputs(a, x) ==
    <<reducer(a, x)>>

\* forEach(fn): `await fn(chunk)` comes before `controller.enqueue(chunk)`, so
\* the side effect has finished when the chunk is enqueued
forEach_fire_and_forget ==
    FALSE

forEach_awaits ==
    TRUE

\* reduce(fn, initial): `acc = await fn(acc, value)`
reduce_step_from_initial(a, x) ==
    reducer(initial, x)

reduce_step(a, x) ==
    reducer(a, x)

\* what the transform of stage s enqueues for the chunk x
StageOutputs(s, x) ==
    CASE kinds[s] = "skip" -> skip_outputs(count[s], arg[s], x)
      [] kinds[s] = "take" -> take_outputs(count[s], arg[s], x)
      [] kinds[s] = "filter" -> filter_outputs(x)
      [] kinds[s] = "map" -> map_outputs(x)
      [] kinds[s] = "scan" -> scan_outputs(acc[s], x)
      [] kinds[s] = "forEach" -> <<x>>
      [] kinds[s] = "throughZero" -> enqueue_result(zeroFn(x))
      [] OTHER -> Outputs(kinds[s], x)

\* the closure's count after the transform of stage s has run once more
CountAfter_never_counting(s) ==
    count[s]

CountAfter(s) ==
    CASE kinds[s] = "skip" -> count[s] + 1
      [] kinds[s] = "take" -> IF count[s] < arg[s] THEN count[s] + 1 ELSE count[s]
      [] OTHER -> count[s]

\* take(n): `if (count >= n) controller.terminate()`
Terminates(s) ==
    kinds[s] = "take" /\ CountAfter(s) >= arg[s]

\* through(): `async transform` awaits transformFn before it enqueues, so the
\* promise the stream waits on settles only then
through_fire_and_forget ==
    FALSE

through_awaits ==
    TRUE

\* through(): `catch (error) { controller.error(error) }` around the call
through_catch_swallow(error) ==
    "none"

through_catch(error) ==
    error

\* through(): `catch (error) { controller.error(error) }` around flushFn()
flush_catch_swallow(error) ==
    "none"

flush_catch(error) ==
    error

\* from(): `catch (error) { controller.error(error) }` around the iteration
from_catch_generic(error) ==
    "TypeError"

from_catch(error) ==
    error

\* pipeThrough(): the pipe reads its source only while the destination's
\* desiredSize is positive
PipeMayRead_always(s) ==
    TRUE

PipeMayRead(s) ==
    Len(wq[s]) < WritableHWM

\* getReader() / pipeThrough() / pipeTo() on a locked stream throw a TypeError
IsLocked_never ==
    FALSE

IsLocked ==
    lock # "none"

\* the terminal operators: `try { ... } finally { reader.releaseLock() }`; the
\* exit path is "done", "match", "producerError" or "callerError"
release_on_return_only(path) ==
    IF path \in {"done", "match"} THEN "none" ELSE lock

finally_releaseLock(path) ==
    "none"

\* collect(): there is no catch, an error thrown by reader.read() leaves the
\* function as a rejection
collect_swallows ==
    FALSE

collect_rethrows ==
    TRUE

\* readable.pipeTo(destination) settles after the writes it made have settled
pipeTo_resolves_at_source_close ==
    FALSE

pipeTo_waits_for_writes ==
    TRUE

\* the predicate / reducer of the terminal operator throws on the item that makes
\* the items read so far rcv
PredThrows(rcv) ==
    faultKind = "pred" /\ Len(rcv) = faultAt

\* find / some / every: `if (await predicate(value)) return value`; "findGt" is
\* find(x => x > threshold)
\* every: `if (!await predicate(value)) return false`, the predicate being
\* x => x > threshold
every_fails_unnegated(value) ==
    value > threshold

every_fails(value) ==
    ~(value > threshold)

Matches_never(rcv) ==
    FALSE

Matches(rcv) ==
    \/ term = "find" /\ Len(rcv) = matchAt
    \/ term \in {"findGt", "some"} /\ Last(rcv) > threshold
    \/ term = "every" /\ every_fails(Last(rcv))

ExitPath(rcv) ==
    IF PredThrows(rcv) THEN "callerError"
    ELSE IF Matches(rcv) THEN "match"
    ELSE "loop"

ResultAfter(rcv) ==
    CASE ExitPath(rcv) = "callerError" -> "rejected"
      [] ExitPath(rcv) = "match" -> "resolved"
      [] OTHER -> "pending"

ErrAfter(rcv) ==
    IF ExitPath(rcv) = "callerError" THEN "PredError" ELSE "none"

\* (a loop that returned without reaching its `finally`)
LockAfter_held(rcv) ==
    lock

LockAfter(rcv) ==
    IF ExitPath(rcv) = "loop" THEN lock ELSE finally_releaseLock(ExitPath(rcv))

\* reduce's accumulator after the loop has handled the last item of rcv
ReduceAfter(rcv) ==
    IF term = "reduce" /\ ~PredThrows(rcv)
    THEN reduce_step(reduceAcc, Last(rcv)) ELSE reduceAcc

\* [[state]] of readable end s is "readable" (close may have been requested)
Readable(s) ==
    rerr[s] = "none" /\ ~(rclosed[s] /\ rq[s] = <<>>)

\* [[state]] of readable end s is "closed"
Closed(s) ==
    rerr[s] = "none" /\ rclosed[s] /\ rq[s] = <<>>

\* the pipeline without faults: collect() on the tail
InitPipe ==
    /\ NoSink
    /\ NoBuild
    /\ srcKind \in {"pull", "from"}
    /\ nItems \in 0..MaxItems
    /\ nStages \in 0..MaxStages
    /\ kinds \in [1..nStages -> {"through", "dup"}]
    /\ next = 1
    /\ rq = [s \in 0..nStages |-> <<>>]
    /\ rclosed = [s \in 0..nStages |-> FALSE]
    /\ readReq = [s \in 0..nStages |-> FALSE]
    /\ wq = [s \in 1..nStages |-> <<>>]
    /\ winflight = [s \in 1..nStages |-> FALSE]
    /\ bp = [s \in 1..nStages |-> TRUE]
    /\ exec = [s \in 1..nStages |-> <<>>]
    /\ seen = [s \in 1..nStages |-> <<>>]
    /\ received = <<>>
    /\ done = FALSE
    /\ Plain
    /\ Fresh
    /\ lock = "first"

\* controller.enqueue of outs on readable end s: a pending read() takes the first
\* chunk (the reader is the tail's consumer, or the pipe into stage s + 1, which
\* writes it to that stage at once); the rest is queued
\* ---- EnhancedStream.collect(): what it returns after its read loop ----
\* the NaN of JavaScript numbers (a sum with undefined, ToNumber of a letter)
NaN == -1

\* ArrayBuffer.isView(chunk)
isView(chunk) ==
    chunk.kind \in {"Uint8Array", "Float32Array"}

\* `const first = chunks[0]`
first_last(chunks) ==
    chunks[Len(chunks)]

first(chunks) ==
    chunks[1]

RECURSIVE totalLength_bytes(_)
\* (a sum of chunk.byteLength: 4 bytes per element of a Float32Array)
totalLength_bytes(chunks) ==
    IF chunks = <<>> THEN 0
    ELSE LET chunk == Last(chunks)
             rest == totalLength_bytes(SubSeq(chunks, 1, Len(chunks) - 1))
         IN IF ~isView(chunk) \/ rest = NaN THEN NaN
            ELSE rest + Len(chunk.data) * (IF chunk.kind = "Float32Array" THEN 4 ELSE 1)

RECURSIVE totalLength(_)
\* typedChunks.reduce((sum, chunk) => sum + chunk.length, 0); a number has no
\* length, and a sum with undefined is NaN
totalLength(chunks) ==
    IF chunks = <<>> THEN 0
    ELSE LET chunk == Last(chunks)
             rest == totalLength(SubSeq(chunks, 1, Len(chunks) - 1))
         IN IF chunk.kind = "number" \/ rest = NaN THEN NaN
            ELSE rest + Len(chunk.data)

\* the elements result.set(chunk, offset) stores into a typed array of the
\* given kind: the elements of a typed array, ToNumber of each character of a
\* string (a digit: its value, otherwise NaN, which a Uint8Array stores as 0),
\* nothing for a number
SetSource(kind, chunk) ==
    CASE isView(chunk) -> chunk.data
      [] chunk.kind = "string" ->
             [j \in 1..Len(chunk.data) |->
                 IF chunk.data[j] \in 48..57 THEN chunk.data[j] - 48
                 ELSE IF kind = "Uint8Array" THEN 0 ELSE NaN]
      [] OTHER -> <<>>

RECURSIVE TypedSet(_, _, _, _)
\* `new first.constructor(totalLength)` is in res; the loop
\* `for (const chunk of typedChunks) { result.set(chunk, offset); offset +=
\* chunk.length }` from chunk k on; set throws a RangeError when the source
\* does not fit at the offset, and takes an offset of NaN as 0
TypedSet(res, chunks, k, off) ==
    IF k > Len(chunks) THEN [threw |-> FALSE, val |-> res]
    ELSE LET src == SetSource(first(chunks).kind, chunks[k])
             at == IF off = NaN THEN 0 ELSE off
         IN IF at + Len(src) > Len(res) THEN [threw |-> TRUE, val |-> <<>>]
            ELSE TypedSet([j \in 1..Len(res) |->
                              IF j \in (at + 1)..(at + Len(src)) THEN src[j - at]
                              ELSE res[j]],
                          chunks, k + 1,
                          IF off = NaN \/ chunks[k].kind = "number" THEN NaN
                          ELSE off + Len(chunks[k].data))

RECURSIVE join(_)
\* chunks.join(''): String(chunk) of each chunk, in order; a typed array gives
\* its elements separated by commas, and elements and numbers are single digits
join(chunks) ==
    IF chunks = <<>> THEN <<>>
    ELSE LET chunk == Last(chunks)
             str == CASE chunk.kind = "string" -> chunk.data
                      [] chunk.kind = "number" -> <<48 + chunk.data[1]>>
                      [] OTHER ->
                           [j \in 1..(2 * Len(chunk.data) - 1) |->
                               IF j % 2 = 1 THEN 48 + chunk.data[(j + 1) \div 2] ELSE 44]
         IN join(SubSeq(chunks, 1, Len(chunks) - 1)) \o str

\* the value collect() returns for the chunks it read, with the form it has:
\* the kind of typed array, "string" or "array"; "RangeError" when set threw
CollectResult(chunks) ==
    IF Len(chunks) = 0 THEN [form |-> "array", val |-> chunks]
    ELSE IF isView(first(chunks))
    THEN LET total == totalLength(chunks)
             blank == [j \in 1..(IF total = NaN THEN 0 ELSE total) |-> 0]
             filled == TypedSet(blank, chunks, 1, 0)
         IN IF filled.threw THEN [form |-> "RangeError", val |-> <<>>]
            ELSE [form |-> first(chunks).kind, val |-> filled.val]
    ELSE IF first(chunks).kind = "string"
    THEN [form |-> "string", val |-> join(chunks)]
    ELSE [form |-> "array", val |-> chunks]

\* the `chunks` of collect(): the chunks read so far
Chunks ==
    [i \in 1..Len(received) |-> values[received[i]]]

\* how the operator's promise settles once read() has reported done
AfterLoop ==
    IF term = "Enhanced.collect" /\ CollectResult(Chunks).form = "RangeError"
    THEN "rejected" ELSE "resolved"

AfterLoopErr ==
    IF AfterLoop = "rejected" THEN "RangeError" ELSE resultErr

\* toArray / collect: `results.push(value)`
push_front(results, value) ==
    <<value>> \o results

push(results, value) ==
    Append(results, value)

Direct(s, outs) ==
    readReq[s] /\ outs # <<>>

ToReader(s, outs) ==
    Direct(s, outs) /\ s = nStages /\ lock = "first" /\ term # "pipeTo"

ToSink(s, outs) ==
    Direct(s, outs) /\ s = nStages /\ lock = "first" /\ term = "pipeTo"

ToSecond(s, outs) ==
    Direct(s, outs) /\ s = nStages /\ lock = "second"

Enqueue(s, outs, settled) ==
    /\ rq' = [rq EXCEPT ![s] = @ \o (IF Direct(s, outs) THEN Tail(outs) ELSE outs)]
    /\ readReq' = [readReq EXCEPT ![s] = IF Direct(s, outs) THEN FALSE ELSE @]
    /\ received' = IF ToReader(s, outs) THEN push(received, Head(outs)) ELSE received
    /\ reduceAcc' = IF ToReader(s, outs)
                    THEN ReduceAfter(Append(received, Head(outs))) ELSE reduceAcc
    /\ result' = IF ToReader(s, outs)
                 THEN ResultAfter(Append(received, Head(outs))) ELSE result
    /\ resultErr' = IF ToReader(s, outs)
                    THEN ErrAfter(Append(received, Head(outs))) ELSE resultErr
    /\ lock' = IF ToReader(s, outs)
               THEN LockAfter(Append(received, Head(outs))) ELSE lock
    /\ stolen' = IF ToSecond(s, outs) THEN Append(stolen, Head(outs)) ELSE stolen
    /\ sinkQ' = IF ToSink(s, outs) /\ sinkState = "writable"
                THEN Append(sinkQ, Head(outs)) ELSE sinkQ
    /\ wq' = [k \in DOMAIN wq |->
                IF k = s /\ settled THEN Tail(wq[k])
                ELSE IF k = s + 1 /\ Direct(s, outs) /\ werr[k] = "none"
                THEN Append(wq[k], Head(outs))
                ELSE wq[k]]

\* what Enqueue assigns
enqVars ==
    <<rq, readReq, received, reduceAcc, result, resultErr, lock, stolen, sinkQ, wq>>

\* the pull() of the source: enqueue the next item, or close
\* (called while a read() is pending or the queue is below the high-water mark)
source_pull ==
    /\ srcKind = "pull"
    /\ ~rclosed[0]
    /\ readReq[0] \/ Len(rq[0]) < SourceHWM
    /\ IF next <= nItems
       THEN /\ Enqueue(0, <<next>>, FALSE)
            /\ next' = next + 1
            /\ UNCHANGED rclosed
       ELSE /\ rclosed' = [rclosed EXCEPT ![0] = TRUE]
            /\ UNCHANGED <<enqVars, next>>
    /\ UNCHANGED <<winflight, bp, exec, seen, done, errVars, second, flushVars,
                   sinkGot, sinkState, count, acc, effects, staticVars>>

\* from(iterable): one turn of `for await (const item of iterable)
\* controller.enqueue(item)` in start(), then `controller.close()`; a throw of
\* the iteration lands in `catch (error) { controller.error(error) }`
from_start ==
    /\ srcKind = "from"
    /\ ~rclosed[0]
    /\ rerr[0] = "none"
    /\ IF faultKind = "iter" /\ next = faultAt + 1
       THEN /\ rerr' = [rerr EXCEPT ![0] = from_catch("IterError")]
            /\ threw' = TRUE
            /\ rq' = [rq EXCEPT ![0] = <<>>]
            /\ readReq' = [readReq EXCEPT ![0] = FALSE]
            /\ UNCHANGED <<received, reduceAcc, result, resultErr, lock, stolen, sinkQ, wq,
                           next, rclosed, werr>>
       ELSE IF next <= nItems
       THEN /\ Enqueue(0, <<next>>, FALSE)
            /\ next' = next + 1
            /\ UNCHANGED <<rclosed, errVars>>
       ELSE /\ rclosed' = [rclosed EXCEPT ![0] = TRUE]
            /\ UNCHANGED <<enqVars, next, errVars>>
    /\ UNCHANGED <<winflight, bp, exec, seen, done, second, flushVars,
                   sinkGot, sinkState, count, acc, effects, staticVars>>

\* the pipe into stage s (pipeThrough): read() on readable end s - 1; a queued
\* chunk is written to the stage at once, otherwise the read stays pending
pipe_read(s) ==
    /\ PipeMayRead(s)
    /\ ~readReq[s - 1]
    /\ Readable(s - 1)
    /\ werr[s] = "none"
    /\ IF rq[s - 1] # <<>>
       THEN /\ wq' = [wq EXCEPT ![s] = Append(@, Head(rq[s - 1]))]
            /\ rq' = [rq EXCEPT ![s - 1] = Tail(@)]
            /\ UNCHANGED readReq
       ELSE /\ readReq' = [readReq EXCEPT ![s - 1] = TRUE]
            /\ UNCHANGED <<wq, rq>>
    /\ UNCHANGED <<next, rclosed, winflight, bp, exec, seen, received, reduceAcc, done,
                   errVars, termVars, flushVars, destVars, count, acc, effects, staticVars>>

\* the pipe into stage s may close the stage: its source is closed and drained,
\* every write to the stage has settled
PipeMayClose(s) ==
    /\ Closed(s - 1)
    /\ wq[s] = <<>>
    /\ werr[s] = "none"
    /\ rerr[s] = "none"
    /\ ~rclosed[s]
    /\ ~flushing[s]

\* the pipe closes the writable end of a stage that has no flush hook, which
\* closes the readable end
pipe_close(s) ==
    /\ PipeMayClose(s)
    /\ flushKind[s] = "none"
    /\ rclosed' = [rclosed EXCEPT ![s] = TRUE]
    /\ readReq' = [readReq EXCEPT ![s - 1] = FALSE]
    /\ UNCHANGED <<next, rq, wq, winflight, bp, exec, seen, received, reduceAcc, done,
                   errVars, termVars, flushVars, destVars, count, acc, effects, staticVars>>

\* the pipe closes the writable end of a stage that has a flush hook: the
\* stage calls flush(controller)
flush_begin(s) ==
    /\ PipeMayClose(s)
    /\ flushKind[s] # "none"
    /\ flushing' = [flushing EXCEPT ![s] = TRUE]
    /\ flushRuns' = [flushRuns EXCEPT ![s] = @ + 1]
    /\ readReq' = [readReq EXCEPT ![s - 1] = FALSE]
    /\ UNCHANGED <<next, rq, rclosed, wq, winflight, bp, exec, seen, received, reduceAcc,
                   done, errVars, termVars, destVars, count, acc, effects, staticVars>>

\* what the flush of stage s enqueues: `if (lastValue !== null)
\* controller.enqueue(lastValue * 100)`
FlushOutputs(s) ==
    IF flushKind[s] = "emit" /\ seen[s] # <<>>
    THEN <<Last(seen[s]) * 100>> ELSE <<>>

\* flush resolves: the readable end is closed; or flush threw and the error
\* was given to controller.error
flush_end(s) ==
    /\ flushing[s]
    /\ flushing' = [flushing EXCEPT ![s] = FALSE]
    /\ LET e == IF faultKind = "flush" /\ faultStage = s
                THEN flush_catch("FlushError") ELSE "none"
       IN IF e = "none" \/ ~Readable(s)
          THEN /\ Enqueue(s, IF Readable(s) THEN FlushOutputs(s) ELSE <<>>, FALSE)
               /\ rclosed' = [rclosed EXCEPT ![s] = TRUE]
               /\ UNCHANGED <<rerr, werr>>
          ELSE /\ rerr' = [rerr EXCEPT ![s] = e]
               /\ werr' = [werr EXCEPT ![s] = e]
               /\ rq' = [rq EXCEPT ![s] = <<>>]
               /\ readReq' = [readReq EXCEPT ![s] = FALSE]
               /\ UNCHANGED <<received, reduceAcc, result, resultErr, lock, stolen, sinkQ,
                              wq, rclosed>>
    /\ threw' = (threw \/ (faultKind = "flush" /\ faultStage = s))
    /\ UNCHANGED <<next, winflight, bp, exec, seen, done, second, flushRuns,
                   sinkGot, sinkState, count, acc, effects, staticVars>>

\* the readable end of stage s calls pull (a read() is pending or the queue is
\* below the high-water mark): the TransformStream lifts its backpressure
stage_pull(s) ==
    /\ bp[s]
    /\ ~rclosed[s]
    /\ rerr[s] = "none"
    /\ readReq[s] \/ Len(rq[s]) < ReadableHWM
    /\ bp' = [bp EXCEPT ![s] = FALSE]
    /\ UNCHANGED <<next, rq, rclosed, readReq, wq, winflight, exec, seen,
                   received, reduceAcc, done, errVars, termVars, flushVars, destVars,
                   count, acc, effects, staticVars>>

\* the writable end of stage s, no write in flight and no backpressure, calls
\* transform(chunk, controller) with the head of its queue: the function starts
transform_begin(s) ==
    /\ wq[s] # <<>>
    /\ ~winflight[s]
    /\ ~bp[s]
    /\ werr[s] = "none"
    /\ exec' = [exec EXCEPT ![s] = Append(@, Head(wq[s]))]
    /\ seen' = [seen EXCEPT ![s] = Append(@, Head(wq[s]))]
    /\ IF kinds[s] = "through" => through_awaits
       THEN /\ winflight' = [winflight EXCEPT ![s] = TRUE]
            /\ UNCHANGED wq
       ELSE /\ wq' = [wq EXCEPT ![s] = Tail(@)]
            /\ UNCHANGED winflight
    /\ UNCHANGED <<next, rq, rclosed, readReq, bp, received, reduceAcc, done,
                   errVars, termVars, flushVars, destVars, count, acc, effects, staticVars>>

\* a call of the function of stage s resolves: its outputs are enqueued on the
\* readable end, backpressure is recomputed, and the write settles; or the
\* function threw and the error was given to controller.error; take(n)
\* terminates the stage once it has let n chunks through
transform_end(s, i) ==
    /\ i \in 1..Len(exec[s])
    /\ exec' = [exec EXCEPT ![s] = SubSeq(@, 1, i - 1) \o SubSeq(@, i + 1, Len(@))]
    /\ winflight' = [winflight EXCEPT ![s] = FALSE]
    /\ LET x == exec[s][i]
           throws == faultKind = "fn" /\ faultStage = s /\ Len(seen[s]) = faultAt
           e == IF throws THEN through_catch("FnError") ELSE "none"
           open == rerr[s] = "none" /\ ~rclosed[s]
           outs == IF open /\ ~throws THEN StageOutputs(s, x) ELSE <<>>
       IN /\ threw' = (threw \/ throws)
          /\ IF e = "none" \/ ~Readable(s)
             THEN /\ Enqueue(s, outs, winflight[s])
                  /\ bp' = [bp EXCEPT ![s] =
                               IF outs = <<>> THEN @
                               ELSE ~(Len(rq'[s]) < ReadableHWM)]
                  /\ count' = [count EXCEPT ![s] = IF throws THEN @ ELSE CountAfter(s)]
                  /\ acc' = [acc EXCEPT ![s] =
                                IF kinds[s] = "scan" /\ ~throws THEN reducer(@, x) ELSE @]
                  /\ effects' = IF kinds[s] = "forEach" /\ ~throws /\ forEach_awaits
                                THEN Append(effects, x) ELSE effects
                  /\ IF open /\ ~throws /\ Terminates(s)
                     THEN /\ rclosed' = [rclosed EXCEPT ![s] = TRUE]
                          /\ werr' = [werr EXCEPT ![s] = "TypeError"]
                     ELSE UNCHANGED <<rclosed, werr>>
                  /\ UNCHANGED rerr
             ELSE /\ rerr' = [rerr EXCEPT ![s] = e]
                  /\ werr' = [werr EXCEPT ![s] = IF @ = "none" THEN e ELSE @]
                  /\ rq' = [rq EXCEPT ![s] = <<>>]
                  /\ readReq' = [readReq EXCEPT ![s] = FALSE]
                  /\ rclosed' = [rclosed EXCEPT ![s] = FALSE]
                  /\ wq' = [wq EXCEPT ![s] = <<>>]
                  /\ UNCHANGED <<received, reduceAcc, result, resultErr, lock, stolen,
                                 sinkQ, bp, count, acc, effects>>
    /\ UNCHANGED <<next, seen, done, second, flushVars, sinkGot, sinkState,
                   staticVars>>

\* errors are propagated forward: the source of the pipe into stage s is
\* errored, the writes the pipe made have settled; the pipe aborts the stage's
\* writable end with the source's error, which errors the stage's readable end
pipe_abort(s) ==
    /\ rerr[s - 1] # "none"
    /\ werr[s] = "none"
    /\ wq[s] = <<>>
    /\ ~flushing[s]
    /\ ~rclosed[s]
    /\ werr' = [werr EXCEPT ![s] = rerr[s - 1]]
    /\ rerr' = [rerr EXCEPT ![s] = IF @ = "none" THEN rerr[s - 1] ELSE @]
    /\ rq' = [rq EXCEPT ![s] = <<>>]
    /\ readReq' = [readReq EXCEPT ![s] = FALSE]
    /\ UNCHANGED <<next, rclosed, wq, winflight, bp, exec, seen, received, reduceAcc, done,
                   threw, termVars, flushVars, destVars, count, acc, effects, staticVars>>

\* errors are propagated backward: the writable end of stage s is errored; the
\* pipe into it cancels its source, which closes the source and, when the
\* source is a stage's readable end, errors that stage's writable end
pipe_cancel(s) ==
    /\ werr[s] # "none"
    /\ Readable(s - 1)
    /\ rclosed' = [rclosed EXCEPT ![s - 1] = TRUE]
    /\ rq' = [rq EXCEPT ![s - 1] = <<>>]
    /\ readReq' = [readReq EXCEPT ![s - 1] = FALSE]
    /\ IF s - 1 >= 1
       THEN /\ werr' = [werr EXCEPT ![s - 1] = IF @ = "none" THEN werr[s] ELSE @]
            /\ wq' = [wq EXCEPT ![s - 1] =
                         IF winflight[s - 1] THEN <<Head(@)>> ELSE <<>>]
       ELSE UNCHANGED <<werr, wq>>
    /\ UNCHANGED <<next, winflight, bp, exec, seen, received, reduceAcc, done, rerr,
                   threw, termVars, flushVars, destVars, count, acc, effects, staticVars>>

\* collect() / run() / toArray() / reduce() / find(): one `await reader.read()`
\* on the tail, and what the loop does with its result
reader_read ==
    /\ lock = "first"
    /\ term # "pipeTo"
    /\ result = "pending"
    /\ ~readReq[nStages]
    /\ rerr[nStages] = "none"
    /\ IF rq[nStages] # <<>>
       THEN /\ received' = push(received, Head(rq[nStages]))
            /\ rq' = [rq EXCEPT ![nStages] = Tail(@)]
            /\ reduceAcc' = ReduceAfter(received')
            /\ result' = ResultAfter(received')
            /\ resultErr' = ErrAfter(received')
            /\ lock' = LockAfter(received')
            /\ UNCHANGED <<readReq, done>>
       ELSE IF rclosed[nStages]
       THEN /\ done' = TRUE
            /\ result' = AfterLoop
            /\ resultErr' = AfterLoopErr
            /\ lock' = finally_releaseLock("done")
            /\ UNCHANGED <<received, reduceAcc, rq, readReq>>
       ELSE /\ readReq' = [readReq EXCEPT ![nStages] = TRUE]
            /\ UNCHANGED <<received, reduceAcc, rq, done, result, resultErr, lock>>
    /\ UNCHANGED <<next, rclosed, wq, winflight, bp, exec, seen, errVars,
                   second, stolen, flushVars, destVars, count, acc, effects, staticVars>>

\* the tail closes while the reader's read() is pending: `done` is true
reader_done ==
    /\ lock = "first"
    /\ term # "pipeTo"
    /\ result = "pending"
    /\ readReq[nStages]
    /\ Closed(nStages)
    /\ done' = TRUE
    /\ result' = AfterLoop
    /\ resultErr' = AfterLoopErr
    /\ lock' = finally_releaseLock("done")
    /\ readReq' = [readReq EXCEPT ![nStages] = FALSE]
    /\ UNCHANGED <<next, rq, rclosed, wq, winflight, bp, exec, seen, received, reduceAcc,
                   errVars, second, stolen, flushVars, destVars,
                   count, acc, effects, staticVars>>

\* the tail is errored: reader.read() rejects, the loop is left through
\* `finally`, and the error leaves the operator
reader_error ==
    /\ lock = "first"
    /\ term # "pipeTo"
    /\ result = "pending"
    /\ rerr[nStages] # "none"
    /\ result' = IF collect_rethrows THEN "rejected" ELSE "resolved"
    /\ resultErr' = IF collect_rethrows THEN rerr[nStages] ELSE "none"
    /\ lock' = finally_releaseLock("producerError")
    /\ UNCHANGED <<next, rq, rclosed, readReq, wq, winflight, bp, exec, seen,
                   received, reduceAcc, done, errVars, second, stolen, flushVars, destVars,
                   count, acc, effects, staticVars>>

\* a second terminal operator (or a second pipe) is started on the same
\* handle: getReader() throws if the stream is locked
second_attach ==
    /\ second = "none"
    /\ IF IsLocked
       THEN /\ second' = "failed"
            /\ UNCHANGED lock
       ELSE /\ second' = "attached"
            /\ lock' = "second"
    /\ UNCHANGED <<next, rq, rclosed, readReq, wq, winflight, bp, exec, seen,
                   received, reduceAcc, done, errVars, result, resultErr, stolen,
                   flushVars, destVars, count, acc, effects, staticVars>>

\* the second operator's loop: one `await reader.read()`
second_read ==
    /\ second = "attached"
    /\ lock = "second"
    /\ ~readReq[nStages]
    /\ IF rq[nStages] # <<>>
       THEN /\ stolen' = Append(stolen, Head(rq[nStages]))
            /\ rq' = [rq EXCEPT ![nStages] = Tail(@)]
            /\ UNCHANGED <<readReq, second, lock>>
       ELSE IF rclosed[nStages] \/ rerr[nStages] # "none"
       THEN /\ second' = "finished"
            /\ lock' = "none"
            /\ UNCHANGED <<stolen, rq, readReq>>
       ELSE /\ readReq' = [readReq EXCEPT ![nStages] = TRUE]
            /\ UNCHANGED <<stolen, rq, second, lock>>
    /\ UNCHANGED <<next, rclosed, wq, winflight, bp, exec, seen, received, reduceAcc, done,
                   errVars, result, resultErr, flushVars, destVars, count, acc, effects,
                   staticVars>>

\* the tail closes while the second operator's read() is pending
second_done ==
    /\ second = "attached"
    /\ lock = "second"
    /\ readReq[nStages]
    /\ Closed(nStages)
    /\ second' = "finished"
    /\ lock' = "none"
    /\ readReq' = [readReq EXCEPT ![nStages] = FALSE]
    /\ UNCHANGED <<next, rq, rclosed, wq, winflight, bp, exec, seen, received, reduceAcc,
                   done, errVars, result, resultErr, stolen, flushVars,
                   destVars, count, acc, effects, staticVars>>

\* pipeTo(destination): the pipe reads the tail while the sink's desiredSize
\* is positive and writes the chunk to the sink
dest_read ==
    /\ term = "pipeTo"
    /\ result = "pending"
    /\ sinkState = "writable"
    /\ sinkQ = <<>>
    /\ ~readReq[nStages]
    /\ Readable(nStages)
    /\ IF rq[nStages] # <<>>
       THEN /\ sinkQ' = <<Head(rq[nStages])>>
            /\ rq' = [rq EXCEPT ![nStages] = Tail(@)]
            /\ UNCHANGED readReq
       ELSE /\ readReq' = [readReq EXCEPT ![nStages] = TRUE]
            /\ UNCHANGED <<sinkQ, rq>>
    /\ UNCHANGED <<next, rclosed, wq, winflight, bp, exec, seen, received, reduceAcc, done,
                   errVars, termVars, flushVars, sinkGot, sinkState, count, acc, effects,
                   staticVars>>

\* the sink's write(chunk) settles: the chunk is written, or write threw and
\* the sink is errored
dest_write_done ==
    /\ sinkQ # <<>>
    /\ sinkState \in {"writable", "closing"}
    /\ IF faultKind = "sink" /\ Len(sinkGot) + 1 = faultAt
       THEN /\ sinkState' = "errored"
            /\ sinkQ' = <<>>
            /\ threw' = TRUE
            /\ UNCHANGED sinkGot
       ELSE /\ sinkGot' = Append(sinkGot, Head(sinkQ))
            /\ sinkQ' = Tail(sinkQ)
            /\ UNCHANGED <<sinkState, threw>>
    /\ UNCHANGED <<next, rq, rclosed, readReq, wq, winflight, bp, exec, seen,
                   received, reduceAcc, done, rerr, werr, termVars, flushVars, count, acc, effects,
                   staticVars>>

\* the tail is closed and drained and the writes have settled: the pipe
\* closes the sink
dest_close ==
    /\ term = "pipeTo"
    /\ result = "pending"
    /\ sinkState = "writable"
    /\ Closed(nStages)
    /\ pipeTo_waits_for_writes => sinkQ = <<>>
    /\ sinkState' = "closing"
    /\ readReq' = [readReq EXCEPT ![nStages] = FALSE]
    /\ UNCHANGED <<next, rq, rclosed, wq, winflight, bp, exec, seen, received, reduceAcc,
                   done, errVars, termVars, flushVars, sinkQ, sinkGot, count, acc, effects,
                   staticVars>>

\* the sink's close() settles: pipeTo resolves
dest_close_done ==
    /\ sinkState = "closing"
    /\ sinkState' = "closed"
    /\ result' = "resolved"
    /\ lock' = "none"
    /\ UNCHANGED <<next, rq, rclosed, readReq, wq, winflight, bp, exec, seen,
                   received, reduceAcc, done, errVars, resultErr, second, stolen,
                   flushVars, sinkQ, sinkGot, count, acc, effects, staticVars>>

\* the tail is errored and the writes have settled: the pipe aborts the sink
\* and pipeTo rejects with the tail's error
dest_abort ==
    /\ term = "pipeTo"
    /\ result = "pending"
    /\ sinkState = "writable"
    /\ sinkQ = <<>>
    /\ rerr[nStages] # "none"
    /\ sinkState' = "errored"
    /\ result' = "rejected"
    /\ resultErr' = rerr[nStages]
    /\ lock' = "none"
    /\ UNCHANGED <<next, rq, rclosed, readReq, wq, winflight, bp, exec, seen,
                   received, reduceAcc, done, errVars, second, stolen, flushVars, sinkQ,
                   sinkGot, count, acc, effects, staticVars>>

\* the sink is errored: the pipe cancels the tail and pipeTo rejects with the
\* sink's error
dest_errored ==
    /\ term = "pipeTo"
    /\ result = "pending"
    /\ sinkState = "errored"
    /\ result' = "rejected"
    /\ resultErr' = "SinkError"
    /\ lock' = "none"
    /\ IF Readable(nStages)
       THEN /\ rclosed' = [rclosed EXCEPT ![nStages] = TRUE]
            /\ rq' = [rq EXCEPT ![nStages] = <<>>]
            /\ readReq' = [readReq EXCEPT ![nStages] = FALSE]
            /\ IF nStages >= 1
               THEN /\ werr' = [werr EXCEPT ![nStages] =
                                   IF @ = "none" THEN "SinkError" ELSE @]
                    /\ wq' = [wq EXCEPT ![nStages] =
                                 IF winflight[nStages] THEN <<Head(@)>> ELSE <<>>]
               ELSE UNCHANGED <<werr, wq>>
       ELSE UNCHANGED <<rclosed, rq, readReq, werr, wq>>
    /\ UNCHANGED <<next, winflight, bp, exec, seen, received, reduceAcc, done, rerr, threw,
                   second, stolen, flushVars, destVars, count, acc, effects, staticVars>>

NextPipe ==
    \/ source_pull
    \/ from_start
    \/ \E s \in 1..nStages : pipe_read(s)
    \/ \E s \in 1..nStages : pipe_close(s)
    \/ \E s \in 1..nStages : stage_pull(s)
    \/ \E s \in 1..nStages : transform_begin(s)
    \/ \E s \in 1..nStages : \E i \in 1..MaxItems : transform_end(s, i)
    \/ reader_read
    \/ reader_done

SpecPipe ==
    InitPipe /\ [][NextPipe]_vars

(* --------------------- claims about the pipeline ---------------------- *)
\* the source's items, in the order the source yields them
SourceItems ==
    [i \in 1..nItems |-> i]

\* what an array-level map with the stage's function gives
Mapped(xs) ==
    [i \in 1..Len(xs) |-> 2 * xs[i]]

\* what an array-level flatMap(x => [x, x]) gives
Duplicated(xs) ==
    [i \in 1..2 * Len(xs) |-> xs[(i + 1) \div 2]]

\* the final item a stage whose flush emits adds after the inputs xs
Flushed(s, xs) ==
    IF flushKind[s] = "emit" /\ xs # <<>> THEN <<xs[Len(xs)] * 100>> ELSE <<>>

RECURSIVE ExpectedOut(_)
\* the sequence that leaves stage s when every item passes every stage exactly
\* once and in order (s = 0: the source)
ExpectedOut(s) ==
    IF s = 0 THEN SourceItems
    ELSE IF kinds[s] \in {"through", "map"}
    THEN Mapped(ExpectedOut(s - 1)) \o Flushed(s, ExpectedOut(s - 1))
    ELSE Duplicated(ExpectedOut(s - 1))

IsPrefix(xs, ys) ==
    /\ Len(xs) <= Len(ys)
    /\ xs = SubSeq(ys, 1, Len(xs))

\* items the source has produced that stage 1 has not finished processing
Unprocessed ==
    (next - 1) - (Len(seen[1]) - Len(exec[1]))

\* C7: within one stage the calls of the transform function never overlap: at
\* most one call is running, and while a call runs the stage's readable side
\* holds no output of an earlier item (all of it was taken downstream before the
\* call began).
C7_TransformCallsNeverOverlap ==
    \A s \in 1..nStages :
        /\ Len(exec[s]) <= 1
        /\ exec[s] # <<>> => rq[s] = <<>>

\* a second item is inside a through() stage's function, the first one's output
\* already handed downstream
C7_Witness ==
    \E s \in 1..nStages :
        /\ kinds[s] = "through"
        /\ Len(seen[s]) = 2
        /\ Len(exec[s]) = 1
        /\ rq[s] = <<>>

\* C8: with a pull-driven source piped through a stage, the items the source has
\* produced that the first stage has not finished processing number at most the
\* sum of the source's and the stage's high-water marks, whatever the length of
\* the stream; every stage holds at most its high-water mark of pending inputs
\* and at most the outputs of one input.
C8_PullSourceBoundedInFlight ==
    (srcKind = "pull" /\ nStages >= 1) =>
        /\ Unprocessed <= SourceHWM + WritableHWM
        /\ Len(rq[0]) <= SourceHWM
        /\ \A s \in 1..nStages :
              /\ Len(wq[s]) <= WritableHWM
              /\ Len(rq[s]) <= Len(Outputs(kinds[s], 0))

\* the stage is busy with one item, one more waits in the source's queue, the
\* source still has items to give and is not asked for them
C8_Witness ==
    /\ srcKind = "pull"
    /\ nStages >= 1
    /\ exec[1] # <<>>
    /\ Len(rq[0]) = SourceHWM
    /\ Unprocessed = SourceHWM + WritableHWM
    /\ next <= nItems
    /\ ~ENABLED source_pull

\* C9: with a source built by from(iterable), the items enqueued by the source
\* and not yet read from it stay bounded independently of the iterable's length:
\* an iterable longer than the source's high-water mark is never held in the
\* source's queue in its entirety.
C9_FromSourceBoundedBuffer ==
    (srcKind = "from" /\ nItems > SourceHWM) => Len(rq[0]) < nItems

\* C10: every stage's function is passed the items of the stage before it exactly
\* once and in order, the consumer receives the outputs in item order, and on
\* completion nothing is missing.
C10_ExactlyOnceInOrder ==
    /\ \A s \in 1..nStages : IsPrefix(seen[s], ExpectedOut(s - 1))
    /\ IsPrefix(received, ExpectedOut(nStages))
    /\ done => /\ received = ExpectedOut(nStages)
               /\ \A s \in 1..nStages : seen[s] = ExpectedOut(s - 1)

\* a one-to-many stage followed by a through() stage ran to completion over at
\* least two items
C10_Witness ==
    /\ done
    /\ nItems >= 2
    /\ nStages = 2
    /\ kinds = <<"dup", "through">>
    /\ received = Mapped(Duplicated(SourceItems))

(* =================== Part III: faults in the pipeline ================== *)
\* nothing has run yet
Unstarted ==
    /\ next = 1
    /\ rq = [s \in 0..nStages |-> <<>>]
    /\ rclosed = [s \in 0..nStages |-> FALSE]
    /\ readReq = [s \in 0..nStages |-> FALSE]
    /\ wq = [s \in 1..nStages |-> <<>>]
    /\ winflight = [s \in 1..nStages |-> FALSE]
    /\ bp = [s \in 1..nStages |-> TRUE]
    /\ exec = [s \in 1..nStages |-> <<>>]
    /\ seen = [s \in 1..nStages |-> <<>>]
    /\ received = <<>>
    /\ done = FALSE

\* a pipeline of through() stages read by collect() or find(), in which at most
\* one thing throws: a stage's function on its faultAt-th call, the iterable
\* after faultAt items, or the operator's own predicate / reducer on the
\* faultAt-th item
InitFault ==
    /\ NoSink
    /\ NoBuild
    /\ srcKind \in {"pull", "from"}
    /\ nItems \in 0..MaxItems
    /\ nStages \in 0..MaxStages
    /\ kinds = [s \in 1..nStages |-> "through"]
    /\ Unstarted
    /\ term \in {"collect", "find"}
    /\ matchAt \in (IF term = "find" THEN 0..MaxItems ELSE {0})
    /\ faultKind \in {"none", "fn", "iter", "pred"}
    /\ faultKind = "iter" => srcKind = "from"
    /\ faultStage \in (IF faultKind = "fn" THEN 1..nStages ELSE {0})
    /\ faultAt \in (CASE faultKind = "none" -> {0}
                      [] faultKind = "iter" -> 0..nItems
                      [] OTHER -> 1..nItems)
    /\ flushKind = [s \in 1..nStages |-> "none"]
    /\ arg = [s \in 1..nStages |-> 0]
    /\ initial = 0
    /\ threshold = 0
    /\ values = <<>>
    /\ Fresh
    /\ lock = "first"

NextFault ==
    \/ source_pull
    \/ from_start
    \/ \E s \in 1..nStages : pipe_read(s)
    \/ \E s \in 1..nStages : pipe_close(s)
    \/ \E s \in 1..nStages : stage_pull(s)
    \/ \E s \in 1..nStages : transform_begin(s)
    \/ \E s \in 1..nStages : \E i \in 1..MaxItems : transform_end(s, i)
    \/ \E s \in 1..nStages : pipe_abort(s)
    \/ \E s \in 1..nStages : pipe_cancel(s)
    \/ reader_read
    \/ reader_done
    \/ reader_error

SpecFault ==
    InitFault /\ [][NextFault]_vars

\* the operator returned early: find() on a match
ReturnedEarly ==
    term = "find" /\ result = "resolved" /\ ~done

\* nothing more can happen
Quiescent ==
    ~ENABLED NextFault

\* C11: when the function of a stage throws on an item, the stage's readable end
\* is errored with that error; an operator that has not already returned on an
\* earlier match never resolves, it rejects, and with that same error; neither
\* the failing item nor any later one is delivered.
C11_StageErrorReachesConsumer ==
    faultKind = "fn" =>
        /\ threw => rerr[faultStage] = "FnError"
        /\ (threw /\ result = "resolved") => ReturnedEarly
        /\ result = "rejected" => resultErr = "FnError"
        /\ Len(received) < faultAt
        /\ (threw /\ Quiescent /\ ~ReturnedEarly) => result = "rejected"

\* the function of the first of two stages threw after an item had been
\* delivered, and collect() rejected with the error
C11_Witness ==
    /\ faultKind = "fn"
    /\ nStages = 2
    /\ faultStage = 1
    /\ term = "collect"
    /\ received # <<>>
    /\ result = "rejected"
    /\ resultErr = "FnError"

\* C12: collect / toArray / reduce resolve only with the complete result: once
\* the tail is errored they never resolve, they have rejected when nothing more
\* can happen, and a resolved operator has read every output of the pipeline.
C12_NoTruncatedResult ==
    term = "collect" =>
        /\ result = "resolved" => (received = ExpectedOut(nStages) /\ rerr[nStages] = "none")
        /\ (rerr[nStages] # "none" /\ Quiescent) => result = "rejected"
        /\ result = "rejected" => resultErr # "none"

\* the iterable threw after some items had been read by collect(), which rejected
C12_Witness ==
    /\ term = "collect"
    /\ faultKind = "iter"
    /\ received # <<>>
    /\ rerr[nStages] = "IterError"
    /\ result = "rejected"

\* C13: a terminal operator holds the reader lock exactly while it is running:
\* whichever way it is left (end of stream, early return on a match, an error
\* of the producer, an error thrown by the caller's predicate or reducer) the
\* lock is released, and a producer error is what the operator rejects with.
C13_LockReleasedOnEveryExit ==
    /\ result = "pending" => lock = "first"
    /\ result # "pending" => lock = "none"
    /\ (result = "rejected" /\ faultKind \in {"fn", "iter"}) =>
           (resultErr = rerr[nStages] /\ resultErr # "none")
    /\ (result = "rejected" /\ faultKind = "pred") => resultErr = "PredError"

\* find() was left because its predicate threw on the second item it read, and
\* the lock is free
C13_Witness ==
    /\ term = "find"
    /\ faultKind = "pred"
    /\ Len(received) = 2
    /\ result = "rejected"
    /\ resultErr = "PredError"
    /\ lock = "none"

(* ============== Part IV: two operators on the same handle ============== *)
\* a pipeline in which nothing throws, read by collect() or find(); a second
\* terminal operator may be started on the same handle at any moment
InitLock ==
    /\ NoSink
    /\ NoBuild
    /\ srcKind \in {"pull", "from"}
    /\ nItems \in 0..MaxItems
    /\ nStages \in 0..MaxStages
    /\ kinds = [s \in 1..nStages |-> "through"]
    /\ Unstarted
    /\ term \in {"collect", "find"}
    /\ matchAt \in (IF term = "find" THEN 0..MaxItems ELSE {0})
    /\ faultKind = "none"
    /\ faultStage = 0
    /\ faultAt = 0
    /\ flushKind = [s \in 1..nStages |-> "none"]
    /\ arg = [s \in 1..nStages |-> 0]
    /\ initial = 0
    /\ threshold = 0
    /\ values = <<>>
    /\ Fresh
    /\ lock = "first"

NextLock ==
    \/ source_pull
    \/ from_start
    \/ \E s \in 1..nStages : pipe_read(s)
    \/ \E s \in 1..nStages : pipe_close(s)
    \/ \E s \in 1..nStages : stage_pull(s)
    \/ \E s \in 1..nStages : transform_begin(s)
    \/ \E s \in 1..nStages : \E i \in 1..MaxItems : transform_end(s, i)
    \/ reader_read
    \/ reader_done
    \/ second_attach
    \/ second_read
    \/ second_done

SpecLock ==
    InitLock /\ [][NextLock]_vars

\* C14: while the first operator holds the reader lock, a second operator (or
\* pipe) started on the same handle fails and reads nothing: the second one is
\* attached, and has items, only after the first has finished, and a failed
\* second one leaves the first with its complete result.
C14_OneReaderAtATime ==
    /\ result = "pending" => (second \in {"none", "failed"} /\ stolen = <<>>)
    /\ lock = "second" => second = "attached"
    /\ second = "failed" => stolen = <<>>
    /\ (second = "failed" /\ done) => received = ExpectedOut(nStages)

\* a second operator was refused while collect() was running, and collect()
\* then finished with every item
C14_Witness ==
    /\ term = "collect"
    /\ second = "failed"
    /\ done
    /\ nItems >= 2
    /\ received = ExpectedOut(nStages)

\* C15: after find / some / every has returned early on a match, no other
\* terminal operator can attach to the stream or read its remaining items.
C15_NoConsumerAfterEarlyReturn ==
    ReturnedEarly => (second \in {"none", "failed"} /\ stolen = <<>>)

(* ================= Part V: composing handles with pipe ================= *)
\* the longest chain of stages composed
MaxChain == 4

\* Stream(readable): `writable: null as any`, pipe is Stream's pipe
StreamHandle(r) ==
    [readable |-> r, writable |-> 0, pipe |-> "Stream"]

\* through(fn) / transform(transformer) for stage k: both ends of its
\* TransformStream, pipe is the stage's own pipe
StageHandle(k) ==
    [readable |-> k, writable |-> k, pipe |-> "stage"]

\* h.pipe(next), after `h.readable.pipeThrough({ readable: next.readable,
\* writable: next.writable })` returned next.readable: the handle returned
Piped(h, nxt) ==
    CASE h.pipe = "stage" ->
             [readable |-> nxt.readable, writable |-> h.writable, pipe |-> "piped"]
      [] h.pipe = "piped" ->
             [readable |-> nxt.readable, writable |-> h.writable, pipe |-> "Stream"]
      [] OTHER -> StreamHandle(nxt.readable)

\* pipeThrough throws a TypeError unless `writable` is a WritableStream
PipeThroughThrows(nxt) ==
    nxt.writable = 0

\* a source and nStages stages, each made by through() or transform(); nothing
\* is piped yet and nothing runs
InitBuild ==
    /\ NoSink
    /\ srcKind = "from"
    /\ nItems = 0
    /\ nStages \in 1..MaxChain
    /\ kinds \in [1..nStages -> {"through", "dup"}]
    /\ Unstarted
    /\ Plain
    /\ Fresh
    /\ lock = "none"
    /\ handles = <<StreamHandle(0)>> \o [k \in 1..nStages |-> StageHandle(k)]
    /\ links = {}
    /\ buildErr = FALSE

\* handles[i].pipe(handles[i + 1])
build_pipe(i) ==
    /\ ~buildErr
    /\ i \in 1..Len(handles) - 1
    /\ LET h == handles[i]
           nxt == handles[i + 1]
       IN IF PipeThroughThrows(nxt)
          THEN /\ buildErr' = TRUE
               /\ UNCHANGED <<handles, links>>
          ELSE /\ links' = links \cup {<<h.readable, nxt.writable>>}
               /\ handles' = SubSeq(handles, 1, i - 1) \o <<Piped(h, nxt)>>
                                \o SubSeq(handles, i + 2, Len(handles))
               /\ UNCHANGED buildErr
    /\ UNCHANGED <<srcKind, nItems, nStages, kinds, next, rq, rclosed, readReq,
                   wq, winflight, bp, exec, seen, received, reduceAcc, done, cfgVars,
                   errVars, termVars, flushVars, destVars, count, acc, effects, sinkVars>>

NextBuild ==
    \E i \in 1..MaxChain : build_pipe(i)

SpecBuild ==
    InitBuild /\ [][NextBuild]_vars

\* the connections of s.pipe(stage 1).pipe(stage 2)...: each readable end is
\* piped into the next stage's writable end
Chain ==
    {<<k - 1, k>> : k \in 1..nStages}

\* C16: in whatever order the pipe calls of a chain are grouped, no call throws,
\* and the finished pipeline is the same chain of connections ending in the
\* last stage's readable end, so that it delivers the same outputs and errors.
C16_PipeIsAssociative ==
    /\ ~buildErr
    /\ Len(handles) = 1 => (links = Chain /\ handles[1].readable = nStages)

(* ===================== Part VI: pipeTo into a sink ===================== *)
\* a pipeline of through() stages (none: a bare source) drained by
\* pipeTo(sink); at most one thing throws: a stage's function on its
\* faultAt-th call, or the sink's write on its faultAt-th call
InitDest ==
    /\ NoSink
    /\ NoBuild
    /\ srcKind \in {"pull", "from"}
    /\ nItems \in 0..MaxItems
    /\ nStages \in 0..MaxStages
    /\ kinds = [s \in 1..nStages |-> "through"]
    /\ Unstarted
    /\ term = "pipeTo"
    /\ matchAt = 0
    /\ faultKind \in {"none", "fn", "sink"}
    /\ faultStage \in (IF faultKind = "fn" THEN 1..nStages ELSE {0})
    /\ faultAt \in (IF faultKind = "none" THEN {0} ELSE 1..nItems)
    /\ flushKind = [s \in 1..nStages |-> "none"]
    /\ arg = [s \in 1..nStages |-> 0]
    /\ initial = 0
    /\ threshold = 0
    /\ values = <<>>
    /\ Fresh
    /\ lock = "first"

NextDest ==
    \/ source_pull
    \/ from_start
    \/ \E s \in 1..nStages : pipe_read(s)
    \/ \E s \in 1..nStages : pipe_close(s)
    \/ \E s \in 1..nStages : stage_pull(s)
    \/ \E s \in 1..nStages : transform_begin(s)
    \/ \E s \in 1..nStages : \E i \in 1..MaxItems : transform_end(s, i)
    \/ \E s \in 1..nStages : pipe_abort(s)
    \/ \E s \in 1..nStages : pipe_cancel(s)
    \/ dest_read
    \/ dest_write_done
    \/ dest_close
    \/ dest_close_done
    \/ dest_abort
    \/ dest_errored

SpecDest ==
    InitDest /\ [][NextDest]_vars

\* C17: pipeTo(sink) resolves only when the sink's write has completed for every
\* output of the pipeline, in order, and the sink is closed; when a stage or the
\* sink has thrown, pipeTo never resolves, it rejects, and with that error.
C17_PipeToSettlesAfterSink ==
    /\ IsPrefix(sinkGot, ExpectedOut(nStages))
    /\ result = "resolved" =>
           (sinkGot = ExpectedOut(nStages) /\ sinkState = "closed" /\ ~threw)
    /\ result = "rejected" =>
           (threw /\ resultErr = (IF faultKind = "fn" THEN "FnError" ELSE "SinkError"))
    /\ (threw /\ ~ENABLED NextDest) => result = "rejected"

\* a bare source of at least two items, piped into a sink: pipeTo resolved
\* after the sink took them all
C17_Witness ==
    /\ nStages = 0
    /\ nItems >= 2
    /\ result = "resolved"
    /\ sinkGot = SourceItems
    /\ sinkState = "closed"

(* ========================= Part VII: flush hooks ======================= *)
\* a pipeline of through() stages read by collect(); a stage may have a flush
\* hook ("hook": through(fn, flushFn); "emit": a transformer whose flush
\* enqueues a final item), and at most one flush hook throws
InitFlush ==
    /\ NoSink
    /\ NoBuild
    /\ srcKind \in {"pull", "from"}
    /\ nItems \in 0..MaxItems
    /\ nStages \in 1..MaxStages
    /\ kinds = [s \in 1..nStages |-> "through"]
    /\ Unstarted
    /\ term = "collect"
    /\ matchAt = 0
    /\ flushKind \in [1..nStages -> {"none", "hook", "emit"}]
    /\ faultKind \in {"none", "flush"}
    /\ faultStage \in (IF faultKind = "flush"
                       THEN {s \in 1..nStages : flushKind[s] # "none"} ELSE {0})
    /\ faultAt = 0
    /\ arg = [s \in 1..nStages |-> 0]
    /\ initial = 0
    /\ threshold = 0
    /\ values = <<>>
    /\ Fresh
    /\ lock = "first"

NextFlush ==
    \/ source_pull
    \/ from_start
    \/ \E s \in 1..nStages : pipe_read(s)
    \/ \E s \in 1..nStages : pipe_close(s)
    \/ \E s \in 1..nStages : flush_begin(s)
    \/ \E s \in 1..nStages : flush_end(s)
    \/ \E s \in 1..nStages : stage_pull(s)
    \/ \E s \in 1..nStages : transform_begin(s)
    \/ \E s \in 1..nStages : \E i \in 1..MaxItems : transform_end(s, i)
    \/ \E s \in 1..nStages : pipe_abort(s)
    \/ reader_read
    \/ reader_done
    \/ reader_error

SpecFlush ==
    InitFlush /\ [][NextFlush]_vars

\* C18: the flush hook of a stage runs at most once, only when the stage before
\* it is closed and drained and every item it gave has been transformed, and
\* while it runs the stage has not signalled completion; a stage with a hook
\* completes only after the hook ran; what flush emits comes after every
\* transformed item and before end-of-stream; when flush throws, collect()
\* never resolves, it rejects, and with that error.
C18_FlushOnceAtEnd ==
    /\ \A s \in 1..nStages :
          /\ flushRuns[s] <= 1
          /\ flushRuns[s] = 1 =>
                /\ Closed(s - 1)
                /\ seen[s] = ExpectedOut(s - 1)
                /\ exec[s] = <<>>
                /\ wq[s] = <<>>
          /\ flushing[s] => (flushRuns[s] = 1 /\ ~rclosed[s])
          /\ (rclosed[s] /\ flushKind[s] # "none") => (flushRuns[s] = 1 /\ ~flushing[s])
    /\ IsPrefix(received, ExpectedOut(nStages))
    /\ done => received = ExpectedOut(nStages)
    /\ threw => result # "resolved"
    /\ result = "rejected" => (threw /\ resultErr = "FlushError")
    /\ (threw /\ ~ENABLED NextFlush) => result = "rejected"

\* the first stage's flush emitted its final item, the second stage's flush hook
\* threw, and collect() rejected with that error after reading some items
C18_Witness ==
    /\ nStages = 2
    /\ flushKind = <<"emit", "hook">>
    /\ faultKind = "flush"
    /\ flushRuns = <<1, 1>>
    /\ Len(seen[2]) = nItems + 1
    /\ received # <<>>
    /\ result = "rejected"
    /\ resultErr = "FlushError"

(* ------------------- the stream built from an iterable ------------------ *)
\* what has been read out of the source so far
FromSource ==
    IF nStages = 0 THEN received
    ELSE seen[1] \o (IF winflight[1] THEN Tail(wq[1]) ELSE wq[1])

\* C19: the stream built by from() gives the iterable's items in iteration
\* order; it is closed only when the iteration has finished without throwing;
\* when the iteration throws the stream is errored with that error and not
\* closed, and an operator that has not already returned never resolves, it
\* rejects, and with that error.
C19_FromFollowsIterable ==
    (srcKind = "from" /\ faultKind \in {"none", "iter", "pred"}) =>
        /\ IsPrefix(FromSource \o rq[0], SourceItems)
        /\ rclosed[0] => (next = nItems + 1 /\ rerr[0] = "none" /\ ~threw)
        /\ threw => (rerr[0] = "IterError" /\ ~rclosed[0] /\ next = faultAt + 1)
        /\ (threw /\ result = "resolved") => ReturnedEarly
        /\ (threw /\ result = "rejected") => resultErr = "IterError"
        /\ (threw /\ Quiescent /\ ~ReturnedEarly) => result = "rejected"

\* the iteration threw after its first items had gone through a stage; the
\* source is errored, not closed, and the operator rejected with the error
C19_Witness ==
    /\ srcKind = "from"
    /\ faultKind = "iter"
    /\ faultAt >= 1
    /\ nStages >= 1
    /\ Len(seen[1]) = faultAt
    /\ ~rclosed[0]
    /\ rerr[0] = "IterError"
    /\ result = "rejected"
    /\ resultErr = "IterError"

(* ================= Part VIII: chained array-like operators ============== *)
\* the longest sequence given to S.from, and the largest n of skip(n) / take(n)
MaxSeq == 4

MaxArg == 2

\* S.from(1..nItems).skip(a).filter(x => x % 2 === 0).map(x => x * 2).take(b)
\* read by toArray()
InitOps ==
    /\ NoSink
    /\ NoBuild
    /\ srcKind = "from"
    /\ nItems \in 0..MaxSeq
    /\ nStages = 4
    /\ kinds = <<"skip", "filter", "map", "take">>
    /\ Unstarted
    /\ term = "collect"
    /\ matchAt = 0
    /\ faultKind = "none"
    /\ faultStage = 0
    /\ faultAt = 0
    /\ flushKind = [s \in 1..nStages |-> "none"]
    /\ \E a \in 0..MaxArg, b \in 0..MaxArg : arg = <<a, 0, 0, b>>
    /\ initial = 0
    /\ threshold = 0
    /\ values = <<>>
    /\ Fresh
    /\ lock = "first"

NextOps ==
    \/ from_start
    \/ \E s \in 1..nStages : pipe_read(s)
    \/ \E s \in 1..nStages : pipe_close(s)
    \/ \E s \in 1..nStages : stage_pull(s)
    \/ \E s \in 1..nStages : transform_begin(s)
    \/ \E s \in 1..nStages : \E i \in 1..MaxItems : transform_end(s, i)
    \/ \E s \in 1..nStages : pipe_cancel(s)
    \/ reader_read
    \/ reader_done

SpecOps ==
    InitOps /\ [][NextOps]_vars

\* xs.slice(a)
ArraySlice(xs, a) ==
    SubSeq(xs, a + 1, Len(xs))

\* xs.filter(x => x % 2 === 0)
RECURSIVE ArrayFilter(_)
ArrayFilter(xs) ==
    IF xs = <<>> THEN <<>>
    ELSE (IF Head(xs) % 2 = 0 THEN <<Head(xs)>> ELSE <<>>) \o ArrayFilter(Tail(xs))

\* xs.slice(0, b)
ArrayTake(xs, b) ==
    SubSeq(xs, 1, IF b < Len(xs) THEN b ELSE Len(xs))

\* S.slice(a).filter(p).map(f).slice(0, b)
ExpectedOps ==
    ArrayTake(Mapped(ArrayFilter(ArraySlice(SourceItems, arg[1]))), arg[4])

\* C20: what toArray() reads from S.from(S).skip(a).filter(p).map(f).take(b) is
\* always a prefix of S.slice(a).filter(p).map(f).slice(0, b); toArray() never
\* rejects, and when nothing more can happen it has resolved with exactly that
\* array.
C20_ChainEqualsArrayOps ==
    /\ IsPrefix(received, ExpectedOps)
    /\ result # "rejected"
    /\ result = "resolved" => received = ExpectedOps
    /\ ~ENABLED NextOps => result = "resolved"

\* [1, 2, 3, 4]: skip 1, keep the even ones, double, take 1 gives [4]; take
\* cut the stream before the second even item
C20_Witness ==
    /\ nItems = 4
    /\ arg = <<1, 0, 0, 1>>
    /\ result = "resolved"
    /\ received = <<4>>
    /\ werr[4] = "TypeError"

(* ============== Part IX: through() with any result value =============== *)
\* from(S).pipe(through(f1))...pipe(through(fk)) read by collect(); each fi is
\* `x => x * 2` or a function whose result is falsy
InitThrough ==
    /\ NoSink
    /\ NoBuild
    /\ srcKind \in {"pull", "from"}
    /\ nItems \in 0..MaxItems
    /\ nStages \in 1..MaxStages
    /\ kinds \in [1..nStages -> {"through", "throughZero"}]
    /\ Unstarted
    /\ Plain
    /\ Fresh
    /\ lock = "first"

SpecThrough ==
    InitThrough /\ [][NextPipe]_vars

RECURSIVE Composed(_, _)
\* fk(...f2(f1(x))) for the functions of the stages 1..k
Composed(k, x) ==
    IF k = 0 THEN x
    ELSE IF kinds[k] = "throughZero" THEN 0
    ELSE 2 * Composed(k - 1, x)

\* what has left stage s so far (s = 0: the source): what the next stage or
\* the reader took, then what waits in the stage's readable end
Emitted(s) ==
    (IF s = nStages THEN received
     ELSE seen[s + 1] \o (IF winflight[s + 1] THEN Tail(wq[s + 1]) ELSE wq[s + 1]))
    \o rq[s]

\* C21: a through() stage has emitted exactly one output for every input whose
\* call has returned, the i-th being the composition of the stages' functions
\* applied to the i-th item of S, also when that value is falsy; collect()
\* never rejects and ends resolved with an array as long as S.
C21_ThroughOneOutputPerInput ==
    /\ \A s \in 1..nStages :
          Emitted(s) = [i \in 1..(Len(seen[s]) - Len(exec[s])) |-> Composed(s, i)]
    /\ result # "rejected"
    /\ result = "resolved" =>
          received = [i \in 1..nItems |-> Composed(nStages, i)]
    /\ ~ENABLED NextPipe => result = "resolved"

\* three items through a stage whose function returns a falsy value and then
\* through `x => x * 2`: collect() resolved with three falsy values
C21_Witness ==
    /\ nItems = 3
    /\ kinds = <<"throughZero", "through">>
    /\ result = "resolved"
    /\ received = <<0, 0, 0>>

(* ============ Part X: the operators of EnhancedStream, one by one ======== *)
\* the initial value of `scan((acc, x) => acc + x, 10)`
ScanInit == 10

\* S(readable) followed by no stage, by one of map / filter / forEach / take /
\* skip / scan, or by skip(n).take(m), read by toArray(), reduce() or find()
InitChain ==
    /\ NoSink
    /\ NoBuild
    /\ srcKind \in {"pull", "from"}
    /\ nItems \in 0..MaxSeq
    /\ kinds \in {<<>>, <<"skip", "take">>}
                 \cup {<<k>> : k \in {"map", "filter", "forEach", "take", "skip", "scan"}}
    /\ nStages = Len(kinds)
    /\ Unstarted
    /\ term \in {"collect", "reduce", "findGt", "some", "every"}
    /\ matchAt = 0
    /\ faultKind = "none"
    /\ faultStage = 0
    /\ faultAt = 0
    /\ flushKind = [s \in 1..nStages |-> "none"]
    /\ arg \in [1..nStages -> 0..MaxArg]
    /\ \A s \in 1..nStages : kinds[s] \notin {"take", "skip"} => arg[s] = 0
    /\ initial \in (IF term = "reduce" \/ kinds = <<"scan">> THEN {0, ScanInit} ELSE {0})
    /\ threshold \in (IF term \in {"findGt", "some", "every"} THEN 0..MaxSeq ELSE {0})
    /\ values = <<>>
    /\ Fresh
    /\ lock = "first"

NextChain ==
    \/ source_pull
    \/ from_start
    \/ \E s \in 1..nStages : pipe_read(s)
    \/ \E s \in 1..nStages : pipe_close(s)
    \/ \E s \in 1..nStages : stage_pull(s)
    \/ \E s \in 1..nStages : transform_begin(s)
    \/ \E s \in 1..nStages : \E i \in 1..MaxItems : transform_end(s, i)
    \/ \E s \in 1..nStages : pipe_cancel(s)
    \/ reader_read
    \/ reader_done

SpecChain ==
    InitChain /\ [][NextChain]_vars

\* nothing more can happen in the chain
ChainQuiescent ==
    ~ENABLED NextChain

\* C22: map(fn).toArray() reads S.map(fn) item by item: what it has read is
\* always a prefix of S.map(fn), it never rejects, and it ends resolved with
\* exactly S.map(fn), one output per input in the same order.
C22_MapEqualsArrayMap ==
    (kinds = <<"map">> /\ term = "collect") =>
        /\ IsPrefix(received, Mapped(SourceItems))
        /\ Emitted(1) = Mapped(SubSeq(SourceItems, 1, Len(seen[1]) - Len(exec[1])))
        /\ result # "rejected"
        /\ result = "resolved" => received = Mapped(SourceItems)
        /\ ChainQuiescent => result = "resolved"

\* four items mapped and read
C22_Witness ==
    /\ kinds = <<"map">>
    /\ term = "collect"
    /\ nItems = 4
    /\ result = "resolved"
    /\ received = <<2, 4, 6, 8>>

C24_TakeEqualsArraySlice ==
    (kinds = <<"take">> /\ term = "collect") =>
        /\ IsPrefix(received, ArrayTake(SourceItems, arg[1]))
        /\ result # "rejected"
        /\ result = "resolved" =>
              /\ received = ArrayTake(SourceItems, arg[1])
              /\ Len(received) = (IF arg[1] < nItems THEN arg[1] ELSE nItems)
        /\ ChainQuiescent => result = "resolved"

\* take(2) of four items: two were read, the stage terminated
C24_Witness ==
    /\ kinds = <<"take">>
    /\ term = "collect"
    /\ nItems = 4
    /\ arg[1] = 2
    /\ result = "resolved"
    /\ received = <<1, 2>>
    /\ werr[1] = "TypeError"

\* the items the pipe into stage s has taken from upstream: those given to the
\* stage's transform, then those still waiting in its writable end
Consumed(s) ==
    seen[s] \o (IF winflight[s] THEN Tail(wq[s]) ELSE wq[s])

\* C25 (as claimed): a take(n) stage takes at most n items from upstream and
\* its transform is invoked for at most n items, for every n >= 0 (for take(0):
\* for none); once the n-th item has been emitted the stage's output has ended.
C25_TakeConsumesAtMostN ==
    \A s \in 1..nStages :
        kinds[s] = "take" =>
            /\ Len(Consumed(s)) <= arg[s]
            /\ (seen[s] # <<>> /\ exec[s] = <<>> /\ count[s] >= arg[s]) => rclosed[s]

\* C26: skip(n).toArray() ends resolved with S without its first n items (with
\* nothing when n >= |S|), and skip(n).take(m).toArray() with the slice
\* S[n : n + m]; what has been read is always a prefix of that, and toArray()
\* never rejects.
C26_SkipTakeEqualsSlice ==
    (nStages >= 1 /\ kinds[1] = "skip" /\ term = "collect") =>
        LET dropped == ArraySlice(SourceItems, arg[1])
            expected == IF nStages = 2 THEN ArrayTake(dropped, arg[2]) ELSE dropped
        IN /\ IsPrefix(received, expected)
           /\ result # "rejected"
           /\ result = "resolved" => received = expected
           /\ ChainQuiescent => result = "resolved"

\* skip(1).take(2) of four items gave the second and the third
C26_Witness ==
    /\ kinds = <<"skip", "take">>
    /\ term = "collect"
    /\ nItems = 4
    /\ arg = <<1, 2>>
    /\ result = "resolved"
    /\ received = <<2, 3>>

RECURSIVE ArrayReduce(_, _)
\* xs.reduce((acc, x) => acc + x, init)
ArrayReduce(xs, init) ==
    IF xs = <<>> THEN init ELSE ArrayReduce(Tail(xs), init + Head(xs))

\* the running totals of xs from init: the k-th is the fold of the first k items
Scanned(xs, init) ==
    [k \in 1..Len(xs) |-> ArrayReduce(SubSeq(xs, 1, k), init)]

\* C27: scan(fn, init).toArray() reads the running folds of S: the k-th item
\* emitted is the left fold of fn over the first k items from init, the
\* initial value itself is never emitted; at most one call of fn runs at a
\* time and the closure's accumulator is the fold of every item whose call has
\* returned; toArray() ends resolved with one item per item of S.
C27_ScanEmitsRunningFold ==
    (kinds = <<"scan">> /\ term = "collect") =>
        /\ Len(exec[1]) <= 1
        /\ Emitted(1) = Scanned(SubSeq(SourceItems, 1, Len(seen[1]) - Len(exec[1])), initial)
        /\ acc[1] = ArrayReduce(SubSeq(SourceItems, 1, Len(seen[1]) - Len(exec[1])), initial)
        /\ IsPrefix(received, Scanned(SourceItems, initial))
        /\ result # "rejected"
        /\ result = "resolved" =>
              /\ received = Scanned(SourceItems, initial)
              /\ Len(received) = nItems
        /\ ChainQuiescent => result = "resolved"

\* from([1, 2, 3, 4]).scan((a, x) => a + x, 0).toArray() gave [1, 3, 6, 10]
C27_Witness ==
    /\ kinds = <<"scan">>
    /\ term = "collect"
    /\ nItems = 4
    /\ initial = 0
    /\ result = "resolved"
    /\ received = <<1, 3, 6, 10>>

\* C28: forEach(fn) passes its input through unchanged, and an item is visible
\* downstream (in the stage's readable end or with the consumer) only after
\* fn has finished with it: the items emitted are the inputs whose call has
\* returned, every one of them is among the finished side effects, the side
\* effects happen once per item in the order of S, and toArray() ends resolved
\* with S after fn ran for every item.
C28_ForEachEffectBeforeItem ==
    kinds = <<"forEach">> =>
        /\ Emitted(1) = SubSeq(SourceItems, 1, Len(seen[1]) - Len(exec[1]))
        /\ IsPrefix(Emitted(1), effects)
        /\ IsPrefix(effects, SourceItems)
        /\ \A i \in 1..Len(exec[1]) :
              \A j \in 1..Len(Emitted(1)) : Emitted(1)[j] # exec[1][i]
        /\ term = "collect" =>
              /\ result # "rejected"
              /\ result = "resolved" => (received = SourceItems /\ effects = SourceItems)
              /\ ChainQuiescent => result = "resolved"

\* fn is running for the third item, which nobody downstream has seen; the
\* first two went through after their side effects
C28_Witness ==
    /\ kinds = <<"forEach">>
    /\ term = "collect"
    /\ exec[1] = <<3>>
    /\ effects = <<1, 2>>
    /\ received = <<1, 2>>

RECURSIVE ChainOut(_)
\* the array the stages 1..s of the chain make of S
ChainOut(s) ==
    IF s = 0 THEN SourceItems
    ELSE LET prev == ChainOut(s - 1)
         IN CASE kinds[s] = "map" -> Mapped(prev)
              [] kinds[s] = "filter" -> ArrayFilter(prev)
              [] kinds[s] = "take" -> ArrayTake(prev, arg[s])
              [] kinds[s] = "skip" -> ArraySlice(prev, arg[s])
              [] kinds[s] = "scan" -> Scanned(prev, initial)
              [] OTHER -> prev

\* C29: reduce(fn, initial) folds the items in the order they arrive, one call
\* of fn per item read, each on the accumulator the previous call left: its
\* accumulator is always the left fold of the items read so far from initial;
\* it never rejects and ends resolved, having read every item of the stream,
\* and on an empty stream its accumulator is still initial.
C29_ReduceIsSequentialFold ==
    term = "reduce" =>
        /\ reduceAcc = ArrayReduce(received, initial)
        /\ IsPrefix(received, ChainOut(nStages))
        /\ result # "rejected"
        /\ result = "resolved" =>
              /\ received = ChainOut(nStages)
              /\ reduceAcc = ArrayReduce(ChainOut(nStages), initial)
              /\ ChainOut(nStages) = <<>> => reduceAcc = initial
        /\ ChainQuiescent => result = "resolved"

\* from([1, 2, 3, 4]) reduced with (acc, x) => acc + x from 10 gave 20
C29_Witness ==
    /\ term = "reduce"
    /\ kinds = <<>>
    /\ nItems = 4
    /\ initial = ScanInit
    /\ result = "resolved"
    /\ reduceAcc = 20

\* C30: find(p) hands p the items in arrival order and returns at the first one
\* p accepts: every item it read before the last one was rejected by p, so it
\* reads nothing and calls p on nothing after a match; when it has returned
\* without seeing the end of the stream, the item it read last, which it
\* returns, satisfies p; it sees the end of the stream (and returns undefined)
\* only after reading every item of the stream with none accepted; it never
\* rejects and always returns.
C30_FindReturnsFirstMatch ==
    term = "findGt" =>
        /\ IsPrefix(received, ChainOut(nStages))
        /\ \A i \in 1..(Len(received) - 1) : ~(received[i] > threshold)
        /\ (result = "resolved" /\ ~done) =>
              (received # <<>> /\ Last(received) > threshold)
        /\ done =>
              /\ result = "resolved"
              /\ received = ChainOut(nStages)
              /\ \A i \in 1..Len(received) : ~(received[i] > threshold)
        /\ result # "rejected"
        /\ ChainQuiescent => result = "resolved"

\* find(x => x > 2) on from([1, 2, 3, 4]) returned with 3 and left the 4 unread
\* in the stream
C30_Witness ==
    /\ term = "findGt"
    /\ kinds = <<>>
    /\ srcKind = "from"
    /\ nItems = 4
    /\ threshold = 2
    /\ result = "resolved"
    /\ ~done
    /\ received = <<1, 2, 3>>
    /\ rq[0] = <<4>>
    /\ ChainQuiescent


\* ---------------------------------------------------------------------------
\* The cursor of the file sink
\* ---------------------------------------------------------------------------

\* the bytes stored by all fh.write calls so far
BytesWritten ==
    SumTo(byteWrites, Len(byteWrites))

\* C36: the sink's position starts at 0 and always equals the total number of
\* bytes written; while a chunk is written it is the position before the chunk
\* plus the bytes of the chunk already stored (the chunk's length once it is
\* drained); a step never decreases it, and changes it only in a fh.write call
\* that reported a positive bytesWritten, by exactly that amount.
C36_PositionCountsBytesWritten ==
    /\ nWrites = 0 => position = 0
    /\ [](position = BytesWritten)
    /\ [](inFlight = "write" =>
            position = SumTo(chunkLens, Head(wsQueue) - 1) + offset)
    /\ [][/\ position' >= position
          /\ position' # position =>
                /\ nWrites' = nWrites + 1
                /\ inFlight = "write"
                /\ position' - position = offset' - offset
                /\ BytesWritten' - BytesWritten = position' - position]_vars

\* the second chunk drained by two partial writes after a first chunk of 3 bytes
C36_Witness ==
    /\ inFlight = "write"
    /\ Head(wsQueue) = 2
    /\ chunkLens = <<3, 3>>
    /\ offset = 3
    /\ position = 6
    /\ nWrites >= 4

\* C37: after a fh.write call reported no progress, no further fh.write call
\* is made, fh.truncate is never called, and the cursor keeps the value it
\* had, the number of bytes actually stored.
C37_NoProgressFreezesSink ==
    /\ [](stalled => truncates = 0 /\ position = BytesWritten)
    /\ [][stalled =>
            /\ nWrites' = nWrites
            /\ position' = position
            /\ truncates' = truncates
            /\ file' = file]_vars

\* one byte of a chunk stored, then no progress, then the sink shut down
C37_Witness ==
    /\ stalled
    /\ position = 1
    /\ offset = 1
    /\ nWrites = 2
    /\ wsState = "errored"
    /\ closes = 1


\* ---------------------------------------------------------------------------
\* The ends of a composed chain
\* ---------------------------------------------------------------------------

\* C39: every handle of a chain rooted at a through/transform stage, however
\* many pipe calls built it, has the head stage's writable end as its writable
\* and the last stage's output as its readable: the handle that follows a
\* handle ending in stage j starts at stage j + 1.
C39_ComposedHandleKeepsHeadWritable ==
    \A i \in 2..Len(handles) :
        /\ handles[i].writable = handles[i - 1].readable + 1
        /\ handles[i].readable >= handles[i].writable


\* ---------------------------------------------------------------------------
\* The stream after an early return
\* ---------------------------------------------------------------------------

\* C35: when find / some / every has returned early, its reader lock is
\* released and the stream is not cancelled: no end of any stage is errored or
\* cancelled, the items not read by the operator stay in the stream in order,
\* and a reader attached afterwards reads exactly the remaining items up to
\* the end of the stream.
C35_EarlyReturnReleasesWithoutCancel ==
    ReturnedEarly =>
        /\ lock # "first"
        /\ Len(received) = matchAt
        /\ \A s \in 0..nStages : rerr[s] = "none"
        /\ \A s \in 1..nStages : werr[s] = "none"
        /\ IsPrefix(received \o stolen \o rq[nStages], ExpectedOut(nStages))
        /\ second = "none" => (lock = "none" /\ stolen = <<>>)
        /\ second = "finished" => received \o stolen = ExpectedOut(nStages)

\* find returned on the first of three items; the stream kept producing, and a
\* later reader on the same handle read the other two and saw the end
C35_Witness ==
    /\ ReturnedEarly
    /\ nItems = 3
    /\ nStages >= 1
    /\ matchAt = 1
    /\ second = "finished"
    /\ Len(stolen) = 2
    /\ next > nItems


\* ---------------------------------------------------------------------------
\* some and every
\* ---------------------------------------------------------------------------

\* the boolean some / every resolved with: some returns true from inside the
\* loop and false at the end of the stream, every the other way round
Returned ==
    IF term = "some" THEN ~done ELSE done

\* C31: some(p) resolves true exactly when an item of the stream satisfies p,
\* and reads nothing after the first such item; every(p) resolves true exactly
\* when no item fails p, and reads nothing after the first failing item; on an
\* empty stream some gives false and every gives true; both always return.
C31_SomeEveryShortCircuit ==
    LET out == ChainOut(nStages)
        holds(x) == x > threshold
        stop(x) == IF term = "some" THEN holds(x) ELSE ~holds(x)
    IN term \in {"some", "every"} =>
        /\ IsPrefix(received, out)
        /\ \A i \in 1..(Len(received) - 1) : ~stop(received[i])
        /\ (result = "resolved" /\ ~done) => (received # <<>> /\ stop(Last(received)))
        /\ done => received = out
        /\ result # "rejected"
        /\ ChainQuiescent => result = "resolved"
        /\ (result = "resolved" /\ term = "some") =>
              (Returned <=> \E i \in 1..Len(out) : holds(out[i]))
        /\ (result = "resolved" /\ term = "every") =>
              (Returned <=> \A i \in 1..Len(out) : holds(out[i]))
        /\ (result = "resolved" /\ out = <<>>) => (Returned <=> term = "every")

\* some(x => x > 2) on from([1, 2, 3, 4]) returned true on the 3 and left the
\* 4 unread
C31_Witness ==
    /\ term = "some"
    /\ srcKind = "from"
    /\ nItems = 4
    /\ threshold = 2
    /\ kinds = <<>>
    /\ result = "resolved"
    /\ Returned
    /\ received = <<1, 2, 3>>
    /\ rq[0] = <<4>>


\* ---------------------------------------------------------------------------
\* toArray and collect
\* ---------------------------------------------------------------------------

\* C32: toArray() / collect(stream) resolve with every item of the stream in
\* arrival order, for a bare source and behind a chain of stages: the items
\* gathered are always a prefix of the stream's items, the result is all of
\* them, seen up to the end of the stream, and an empty stream gives the empty
\* array; the call always returns.
C32_ToArrayGathersAllInOrder ==
    term = "collect" =>
        /\ IsPrefix(received, ChainOut(nStages))
        /\ result # "rejected"
        /\ result = "resolved" => (done /\ received = ChainOut(nStages))
        /\ (result = "resolved" /\ nItems = 0) => received = <<>>
        /\ ChainQuiescent => result = "resolved"

\* from([1, 2, 3, 4]).toArray() and from([1, 2, 3, 4]).map(fn).toArray()
C32_Witness ==
    /\ term = "collect"
    /\ nItems = 4
    /\ result = "resolved"
    /\ \/ kinds = <<>> /\ received = <<1, 2, 3, 4>>
       \/ kinds = <<"map">> /\ received = <<2, 4, 6, 8>>


(* ================= Part XI: EnhancedStream.collect() =================== *)
\* the most chunks a collected stream has
MaxCollect == 3

\* the chunks a source may yield: typed arrays of two kinds, strings ("a",
\* "1b", ""), a number
CollectItems ==
    { [kind |-> "Uint8Array", data |-> <<>>],
      [kind |-> "Uint8Array", data |-> <<1, 2>>],
      [kind |-> "Float32Array", data |-> <<3>>],
      [kind |-> "Float32Array", data |-> <<4, 5>>],
      [kind |-> "string", data |-> <<97>>],
      [kind |-> "string", data |-> <<49, 98>>],
      [kind |-> "string", data |-> <<>>],
      [kind |-> "number", data |-> <<7>>] }

\* S.from(values).collect() and S(stream).collect()
InitCollect ==
    /\ NoSink
    /\ NoBuild
    /\ srcKind \in {"pull", "from"}
    /\ nItems \in 0..MaxCollect
    /\ nStages = 0
    /\ kinds = <<>>
    /\ Unstarted
    /\ term = "Enhanced.collect"
    /\ matchAt = 0
    /\ faultKind = "none"
    /\ faultStage = 0
    /\ faultAt = 0
    /\ flushKind = <<>>
    /\ arg = <<>>
    /\ initial = 0
    /\ threshold = 0
    /\ values \in [1..nItems -> CollectItems]
    /\ Fresh
    /\ lock = "first"

NextCollect ==
    \/ source_pull
    \/ from_start
    \/ reader_read
    \/ reader_done

SpecCollect ==
    InitCollect /\ [][NextCollect]_vars

RECURSIVE Flat(_)
\* the elements of the chunks, one chunk after the other
Flat(chunks) ==
    IF chunks = <<>> THEN <<>>
    ELSE Flat(SubSeq(chunks, 1, Len(chunks) - 1)) \o Last(chunks).data

\* C33: collect() on one or more typed-array chunks of the same kind resolves
\* with a typed array of the first chunk's kind whose length is the sum of the
\* element counts of the chunks and whose elements are the chunks' elements,
\* concatenated in stream order.
C33_CollectConcatenatesTypedArrays ==
    (/\ result # "pending"
     /\ nItems >= 1
     /\ \A i \in 1..nItems : isView(values[i]) /\ values[i].kind = values[1].kind) =>
        /\ result = "resolved"
        /\ Chunks = values
        /\ CollectResult(Chunks).form = values[1].kind
        /\ Len(CollectResult(Chunks).val) = Len(Flat(values))
        /\ CollectResult(Chunks).val = Flat(values)

\* three Float32Array chunks of 2, 1 and 2 elements give 5 elements
C33_Witness ==
    /\ result = "resolved"
    /\ nItems = 3
    /\ \A i \in 1..nItems : values[i].kind = "Float32Array"
    /\ CollectResult(Chunks).form = "Float32Array"
    /\ CollectResult(Chunks).val = <<4, 5, 3, 4, 5>>

\* C34: the form of what collect() returns depends on the first item only: a
\* first item that is a string gives a string, the join('') of all items (for
\* strings, their characters in order); a first item that is neither a typed
\* array nor a string gives the array of the items; an empty stream gives an
\* empty array; whatever the later items are, a returned value has the form
\* the first item selects.
C34_CollectFormFromFirstItem ==
    LET got == CollectResult(Chunks)
    IN result = "resolved" =>
        /\ Chunks = values
        /\ nItems = 0 => (got.form = "array" /\ got.val = <<>>)
        /\ (nItems >= 1 /\ values[1].kind = "string") =>
              /\ got.form = "string"
              /\ (\A i \in 1..nItems : values[i].kind = "string") =>
                    got.val = Flat(values)
        /\ (nItems >= 1 /\ values[1].kind = "number") =>
              (got.form = "array" /\ got.val = values)
        /\ (nItems >= 1 /\ isView(values[1])) => got.form = values[1].kind

\* "1b", then a number and a typed array: still a string, "1b" \o "7" \o "1,2"
C34_Witness ==
    /\ result = "resolved"
    /\ nItems = 3
    /\ values[1] = [kind |-> "string", data |-> <<49, 98>>]
    /\ values[2].kind = "number"
    /\ values[3] = [kind |-> "Uint8Array", data |-> <<1, 2>>]
    /\ CollectResult(Chunks).form = "string"
    /\ CollectResult(Chunks).val = <<49, 98, 55, 49, 44, 50>>


(* ============ Part XII: a stage whose function throws, with flush ======== *)
\* a ReadableStream source and stages made by through(fn, flushFn),
\* transform(transformer) or map(fn); at most one thing throws: the function of stage faultStage on its faultAt-th call
InitStageFail ==
    /\ NoSink
    /\ NoBuild
    /\ srcKind = "pull"
    /\ nItems \in 1..MaxItems
    /\ nStages \in 1..MaxStages
    /\ kinds \in [1..nStages -> {"through", "map"}]
    /\ Unstarted
    /\ term = "collect"
    /\ matchAt = 0
    /\ flushKind \in [1..nStages -> {"none", "hook", "emit"}]
    /\ \A s \in 1..nStages : kinds[s] = "map" => flushKind[s] = "none"
    /\ faultKind \in {"none", "fn"}
    /\ faultStage \in (IF faultKind = "fn" THEN 1..nStages ELSE {0})
    /\ faultAt \in (IF faultKind = "fn" THEN 1..nItems ELSE {0})
    /\ arg = [s \in 1..nStages |-> 0]
    /\ initial = 0
    /\ threshold = 0
    /\ values = <<>>
    /\ Fresh
    /\ lock = "first"

NextStageFail ==
    \/ source_pull
    \/ \E s \in 1..nStages : pipe_read(s)
    \/ \E s \in 1..nStages : pipe_close(s)
    \/ \E s \in 1..nStages : flush_begin(s)
    \/ \E s \in 1..nStages : flush_end(s)
    \/ \E s \in 1..nStages : stage_pull(s)
    \/ \E s \in 1..nStages : transform_begin(s)
    \/ \E s \in 1..nStages : \E i \in 1..MaxItems : transform_end(s, i)
    \/ \E s \in 1..nStages : pipe_abort(s)
    \/ \E s \in 1..nStages : pipe_cancel(s)
    \/ reader_read
    \/ reader_done
    \/ reader_error

SpecStageFail ==
    InitStageFail /\ [][NextStageFail]_vars

\* C38: once the function of a stage has thrown on its k-th item, the function
\* is never invoked again (the stage has seen exactly k items), the stage's
\* flush hook is never run, and the consumer receives nothing made from the
\* k-th or a later item: fewer than k items, a prefix of the stream's outputs.
C38_FailedStageStops ==
    (faultKind = "fn" /\ threw) =>
        /\ Len(seen[faultStage]) = faultAt
        /\ exec[faultStage] = <<>>
        /\ flushRuns[faultStage] = 0
        /\ ~flushing[faultStage]
        /\ \A s \in faultStage..nStages : flushRuns[s] = 0
        /\ Len(received) < faultAt
        /\ IsPrefix(received, ExpectedOut(nStages))
        /\ ~done

\* the function of stage 1, with a flush hook, threw on the second of three
\* items; the consumer has the first item's output and the error, the source
\* had more to give, and nothing is left to run
C38_Witness ==
    /\ faultKind = "fn"
    /\ threw
    /\ nItems = 3
    /\ nStages = 2
    /\ faultStage = 1
    /\ faultAt = 2
    /\ flushKind[1] = "hook"
    /\ Len(received) = 1
    /\ result = "rejected"
    /\ ~ENABLED NextStageFail


(* ========================= Part XIII: termination ======================= *)
\* a finite source behind the chained operators read by a terminal operator,
\* or behind through() stages piped into a sink, with functions that return;
\* or chunks piped into the file sink, whose fh.write stores at least one byte
\* per call
InitLive ==
    \/ InitChain /\ nItems <= MaxItems /\ threshold <= MaxArg
    \/ InitDest /\ faultKind = "none"
    \/ InitSink /\ mode = "pipeTo" /\ preLen = 0

NextLive ==
    \/ source_pull
    \/ from_start
    \/ \E s \in 1..nStages : pipe_read(s)
    \/ \E s \in 1..nStages : pipe_close(s)
    \/ \E s \in 1..nStages : stage_pull(s)
    \/ \E s \in 1..nStages : transform_begin(s)
    \/ \E s \in 1..nStages : \E i \in 1..MaxItems : transform_end(s, i)
    \/ \E s \in 1..nStages : pipe_cancel(s)
    \/ reader_read
    \/ reader_done
    \/ dest_read
    \/ dest_write_done
    \/ dest_close
    \/ dest_close_done
    \/ mode = "pipeTo" /\ ClientWrite
    \/ mode = "pipeTo" /\ ClientClose
    \/ PipeToSettle
    \/ toFile_write_begin
    \/ \E bytesWritten \in 1..MaxChunkLen :
        /\ inFlight = "write"
        /\ bytesWritten <= chunkLens[Head(wsQueue)] - offset
        /\ toFile_write_loop(bytesWritten)
    \/ toFile_write_return
    \/ toFile_close_begin
    \/ \E ok \in BOOLEAN : toFile_close_truncated(ok)
    \/ toFile_close_return

\* the event loop runs a ready job whenever there is one
SpecLive ==
    InitLive /\ [][NextLive]_vars /\ WF_vars(NextLive)

\* C40: with a finite source and functions that return, the terminal operator
\* (toArray / collect / run, reduce, find, some, every) or pipeTo eventually
\* settles, and stays settled; and while the file sink writes a chunk of L
\* bytes, every fh.write call advances the chunk offset by at least one byte
\* and never past L, so the write of the chunk ends within L calls (in all, no
\* more calls than bytes stored).
C40_EverythingSettles ==
    /\ <>[](IF pipeRes = "none" THEN result # "pending" ELSE pipeRes # "pending")
    /\ [](inFlight = "write" => offset <= chunkLens[Head(wsQueue)])
    /\ [](nWrites <= position)
    /\ [][nWrites' # nWrites => (nWrites' = nWrites + 1 /\ offset' > offset)]_vars
    /\ (inFlight = "write") ~> (inFlight # "write")

\* two chunks of 3 bytes piped into the file, each stored by three fh.write
\* calls of one byte; the sink has closed and pipeTo has resolved
C40_Witness ==
    /\ pipeRes = "resolved"
    /\ chunkLens = <<3, 3>>
    /\ nWrites = 6
    /\ position = 6
    /\ wsState = "closed"

====
